---- MODULE Spec2Model ----
(***************************************************************************)
(* A model of parts of the musli serialization framework:                  *)
(*   - the pooled System allocator (crates/musli/src/allocator/system.rs)  *)
(*   - path tracking around sequence and traced-map traversals             *)
(*     (crates/musli-core/src/impls/alloc.rs)                              *)
(*   - the Value Tree encoder (crates/musli-value/src/en.rs)               *)
(*   - the decode of a JSON text into a record with a traced map field     *)
(*     (crates/musli/src/json/parser/slice_parser.rs and                   *)
(*     crates/musli/tests/trace_collection.rs)                             *)
(* Each component has its own specification; the variables of the other    *)
(* components stay at their initial values.                                *)
(***************************************************************************)
EXTENDS Integers, Sequences, FiniteSets, TLC

\* ------------------------------------------------------------------ bounds
\* Number of SystemBuf handles the caller can hold at the same time.
MaxHandles == 3
\* Number of calls of System::alloc in one behaviour.
MaxAllocs == 4
\* Total number of bytes held in live buffers.
MaxBytes == 4
\* Nesting depth of collections in a traversal.
MaxDepth == 2
\* Number of elements or entries of one collection.
MaxElems == 2
\* Number of Values written into one outermost Value: the primitive calls,
\* the encode_some calls and the builders made for it.
MaxNodes == 3
\* Number of entries of the map in a JSON text.
MaxEntries == 2
\* Number of spaces before a value in a JSON text.
MaxPad == 1
\* Largest value of a numeric field of an enum variant.
MaxField == 1
\* Number of entries of a Map in a Value tree that is encoded.
MaxPairs == 1
\* The capacity N of the fixed-capacity allocator's region, in bytes.
StackCapacity == 3
\* Buffers of the fixed-capacity allocator that may be live at once.
MaxStackBufs == 2
\* Pieces a formatted value is written in, and bytes per piece.
MaxPieces == 2
MaxPiece == 1
\* Width in bits of the signed integers that are encoded.
IntBits == 8
\* Width in bits of the machine word (usize) of the slice parser.
WordBits == 6
\* Length of the slice given to a slice parser.
MaxSliceLen == 3

\* ------------------------------------------------------------- allocator
VARIABLES
    head,          \* Internal.head: the first free region, or None
    nregions,      \* regions created so far by Box::new: they are 1..nregions
    region_data,   \* Region.data of every created region
    region_next,   \* Region.next of every created region
    bufs,          \* the live SystemBuf handles: handle -> its region, or None
    peak,          \* history: the largest number of handles live at once
    allocs,        \* history: the number of System::alloc calls
    written,       \* history: per live handle, the bytes written through it
    dirtied,       \* history: the regions some handle has written bytes to
    dropped        \* Drop for System: where it stands, the free list it began
                   \* with and the regions it has deallocated, in order

allocVars == <<head, nregions, region_data, region_next, bufs,
               peak, allocs, written, dirtied, dropped>>

\* ------------------------------------------------- context and traversals
VARIABLES
    path,        \* Context: the stack of open path entries
    errors,      \* Context: the errors reported so far, in order
    stack,       \* the composite encode/decode calls in progress, outermost first
    unwinding,   \* an Err is being returned through the calls in progress
    ret,         \* history: the latest return of a composite call, or NoRet
    failed       \* history: some composite call has returned Err

traceVars == <<path, errors, stack, unwinding, ret, failed>>

\* ------------------------------------------------------------ value tree
VARIABLES
    sink,        \* the Value the outermost ValueEncoder writes to (&mut Value)
    builders,    \* the composite builders in progress, outermost first
    enc,         \* the output of the ValueEncoder not yet consumed, or NoEnc
    verr,        \* the error returned by the latest builder call, or ""
    nodes,       \* history: the number of encoder calls for this outermost Value
    last         \* history: the latest step and what it delivered

valueVars == <<sink, builders, enc, verr, nodes, last>>

\* ------------------------------------------------------------ JSON decode
VARIABLES
    doc,         \* history: the record the JSON text was written from
    slice,       \* SliceParser.slice: the bytes given to from_slice_with
    index,       \* SliceParser.index
    mark,        \* Context: the byte position kept by advance
    jpath,       \* Context: the stack of open path entries
    jerrors,     \* Context: the errors reported so far, in order
    jout,        \* the map `out` built by trace_decode
    pc           \* where the decode of the record stands

jsonVars == <<doc, slice, index, mark, jpath, jerrors, jout, pc>>

\* ------------------------------------------------- round trip of variants
VARIABLES
    rt_in,       \* the two enum values given to the round trip
    rt_value,    \* the Values they were encoded to
    rt_out,      \* the enum values decoded from the Values
    rt_pc        \* "idle", "encoded" or "decoded"

variantVars == <<rt_in, rt_value, rt_out, rt_pc>>

\* ---------------------------------------------- round trip of Value trees
VARIABLES
    vt_in,       \* the Value tree given to the round trip
    vt_value,    \* what the driver made of it
    vt_out,      \* the Value tree decoded from that
    vt_pc        \* "idle", "encoded" or "decoded"

treeVars == <<vt_in, vt_value, vt_out, vt_pc>>

\* ------------------------------------------------- integers on the wire
VARIABLES
    zz_n,        \* the signed integer given to the encoding
    zz_bytes,    \* the bytes it was encoded to
    zz_out,      \* the signed integer decoded from the bytes
    zz_pc        \* "idle", "encoded" or "decoded"

intVars == <<zz_n, zz_bytes, zz_out, zz_pc>>

\* ------------------------------- fixed-capacity allocator, collect_string
VARIABLES
    stk_region,  \* the bytes of the one pre-sized region, 0 where unwritten
    stk_bufs,    \* buffer slot -> its sub-region [live, start, len, limit]
    stk_last,    \* history: the last operation on the allocator
    cs           \* history: the last call of collect_string, what it returned

stackVars == <<stk_region, stk_bufs, stk_last, cs>>

\* ------------------------------------------- visitors of strings and bytes
VARIABLES
    vis_in,      \* what the driver delivered: [type, channel, text]
    vis_heap,    \* the buffers that exist: buffer -> the bytes it holds
    vis_out,     \* what the visitor returned: [kind, buf]
    vis_pc       \* "idle", "visited" or "returned"

visitVars == <<vis_in, vis_heap, vis_out, vis_pc>>

\* ------------------------------------------------ encoding configuration
VARIABLES
    encoding,    \* an Encoding<M, OPT> value: [mode, opt]
    enc_last     \* history: the last operation and the encoding it was given

encodingVars == <<encoding, enc_last>>

\* ------------------------------------------------ slice parser, by call
VARIABLES
    called       \* history: the last call on the parser and what it returned

parserVars == <<called>>

vars == <<allocVars, traceVars, valueVars, jsonVars, variantVars,
          treeVars, intVars, stackVars, visitVars, encodingVars,
          parserVars>>

\* Steps of one component leave the other components alone.
AllocOnly ==
    UNCHANGED <<traceVars, valueVars, jsonVars, variantVars, treeVars,
                intVars, stackVars, visitVars, encodingVars, parserVars>>
TraceOnly ==
    UNCHANGED <<allocVars, valueVars, jsonVars, variantVars, treeVars,
                intVars, stackVars, visitVars, encodingVars, parserVars>>
ValueOnly ==
    UNCHANGED <<allocVars, traceVars, jsonVars, variantVars, treeVars,
                intVars, stackVars, visitVars, encodingVars, parserVars>>
JsonOnly ==
    UNCHANGED <<allocVars, traceVars, valueVars, variantVars, treeVars,
                intVars, stackVars, visitVars, encodingVars, parserVars>>
VariantOnly ==
    UNCHANGED <<allocVars, traceVars, valueVars, jsonVars, treeVars,
                intVars, stackVars, visitVars, encodingVars, parserVars>>
TreeOnly ==
    UNCHANGED <<allocVars, traceVars, valueVars, jsonVars, variantVars,
                intVars, stackVars, visitVars, encodingVars, parserVars>>
IntOnly ==
    UNCHANGED <<allocVars, traceVars, valueVars, jsonVars, variantVars,
                treeVars, stackVars, visitVars, encodingVars, parserVars>>
StackOnly ==
    UNCHANGED <<allocVars, traceVars, valueVars, jsonVars, variantVars,
                treeVars, intVars, visitVars, encodingVars, parserVars>>
VisitOnly ==
    UNCHANGED <<allocVars, traceVars, valueVars, jsonVars, variantVars,
                treeVars, intVars, stackVars, encodingVars, parserVars>>
EncodingOnly ==
    UNCHANGED <<allocVars, traceVars, valueVars, jsonVars, variantVars,
                treeVars, intVars, stackVars, visitVars, parserVars>>
ParserOnly ==
    UNCHANGED <<allocVars, traceVars, valueVars, variantVars,
                treeVars, intVars, stackVars, visitVars, encodingVars>>

None == 0
Handles == 1..MaxHandles
Regions == 1..nregions
Byte == {1, 2}

Live == {h \in Handles : bufs[h] # None}

RECURSIVE SumLen(_)
SumLen(hs) ==
    IF hs = {} THEN 0
    ELSE LET h == CHOOSE x \in hs : TRUE
         IN Len(region_data[bufs[h]]) + SumLen(hs \ {h})

\* The free list as the sequence of regions reached from `from` by following
\* next pointers, for at most `fuel` links.
RECURSIVE Walk(_, _)
Walk(from, fuel) ==
    IF from = None \/ fuel = 0 THEN <<>>
    ELSE <<from>> \o Walk(region_next[from], fuel - 1)

\* The region at which a walk of `fuel` links from `from` stops.
RECURSIVE WalkEnd(_, _)
WalkEnd(from, fuel) ==
    IF from = None \/ fuel = 0 THEN from
    ELSE WalkEnd(region_next[from], fuel - 1)

FreeList == Walk(head, nregions + 1)
FreeListEnds == WalkEnd(head, nregions) = None

\* The allocator is in use: Drop for System has not begun.
NotDropped == [pc |-> "live", list |-> <<>>, freed |-> <<>>]

\* System::new
SystemNew ==
    /\ head = None
    /\ nregions = 0
    /\ region_data = <<>>
    /\ region_next = <<>>
    /\ bufs = [h \in Handles |-> None]
    /\ peak = 0
    /\ allocs = 0
    /\ written = [h \in Handles |-> <<>>]
    /\ dirtied = {}
    /\ dropped = NotDropped

\* A variant of Internal::alloc that ignores the free list.
InternalAllocFresh(h) ==
    /\ nregions' = nregions + 1
    /\ region_data' = Append(region_data, <<>>)
    /\ region_next' = Append(region_next, None)
    /\ bufs' = [bufs EXCEPT ![h] = nregions + 1]
    /\ UNCHANGED head

\* Internal::alloc, its result stored as the region of handle h.
InternalAlloc(h) ==
    IF head # None
    THEN /\ head' = region_next[head]
         /\ region_next' = [region_next EXCEPT ![head] = None]
         /\ bufs' = [bufs EXCEPT ![h] = head]
         /\ UNCHANGED <<nregions, region_data>>
    ELSE /\ nregions' = nregions + 1
         /\ region_data' = Append(region_data, <<>>)
         /\ region_next' = Append(region_next, None)
         /\ bufs' = [bufs EXCEPT ![h] = nregions + 1]
         /\ UNCHANGED head

\* A variant of Internal::free that forgets to link the old head.
InternalFreeNoLink(region) ==
    /\ region_data' = [region_data EXCEPT ![region] = <<>>]
    /\ region_next' = [region_next EXCEPT ![region] = None]
    /\ head' = region
    /\ UNCHANGED nregions

\* A variant of Internal::free that keeps the contents of the region.
InternalFreeNoClear(region) ==
    /\ region_next' = [region_next EXCEPT ![region] = head]
    /\ head' = region
    /\ UNCHANGED <<nregions, region_data>>

\* A variant of Internal::free that links the region at the tail (FIFO).
InternalFreeTail(region) ==
    /\ region_data' = [region_data EXCEPT ![region] = <<>>]
    /\ IF head = None
       THEN /\ head' = region
            /\ region_next' = [region_next EXCEPT ![region] = None]
       ELSE /\ head' = head
            /\ region_next' = [region_next EXCEPT
                                  ![FreeList[Len(FreeList)]] = region,
                                  ![region] = None]
    /\ UNCHANGED nregions

\* Internal::free
InternalFree(region) ==
    /\ region_data' = [region_data EXCEPT ![region] = <<>>]
    /\ region_next' = [region_next EXCEPT ![region] = head]
    /\ head' = region
    /\ UNCHANGED nregions

\* A variant of SystemBuf::write that overwrites instead of appending.
BufWriteReplace(data, bytes) == bytes

\* SystemBuf::write: the new contents of the region.
BufWrite(data, bytes) == data \o bytes

\* SystemBuf::len and SystemBuf::as_slice
BufAsSlice(h) == region_data[bufs[h]]
BufLen(h) == Len(region_data[bufs[h]])

\* What a caller passes to write: a literal, or the slice of a live buffer.
WriteInputs ==
    {<<>>} \cup {<<b>> : b \in Byte} \cup {BufAsSlice(g) : g \in Live}

\* System::alloc. Handles are values the caller holds: the model names a new
\* handle by the lowest name not in use.
Alloc(h) ==
    /\ bufs[h] = None
    /\ \A g \in Handles : g < h => bufs[g] # None
    /\ allocs < MaxAllocs
    /\ dropped.pc = "live"
    /\ InternalAlloc(h)
    /\ allocs' = allocs + 1
    /\ peak' = IF Cardinality(Live) + 1 > peak THEN Cardinality(Live) + 1 ELSE peak
    /\ written' = [written EXCEPT ![h] = <<>>]
    /\ UNCHANGED <<dirtied, dropped>>
    /\ AllocOnly

\* SystemBuf::write on the buffer of handle h; it always returns true.
Write(h, bytes) ==
    /\ bufs[h] # None
    /\ SumLen(Live) + Len(bytes) <= MaxBytes
    /\ region_data' = [region_data EXCEPT ![bufs[h]] = BufWrite(@, bytes)]
    /\ written' = [written EXCEPT ![h] = @ \o bytes]
    /\ dirtied' = IF bytes # <<>> THEN dirtied \cup {bufs[h]} ELSE dirtied
    /\ UNCHANGED <<head, nregions, region_next, bufs, peak, allocs, dropped>>
    /\ AllocOnly

\* Drop for SystemBuf
DropBuf(h) ==
    /\ bufs[h] # None
    /\ InternalFree(bufs[h])
    /\ bufs' = [bufs EXCEPT ![h] = None]
    /\ written' = [written EXCEPT ![h] = <<>>]
    /\ UNCHANGED <<peak, allocs, dirtied, dropped>>
    /\ AllocOnly

\* Drop for System begins. drop takes &mut self, and every SystemBuf borrows
\* the allocator: no handle is live.
SystemDrop ==
    /\ dropped.pc = "live"
    /\ Live = {}
    /\ dropped' = [pc |-> "running", list |-> FreeList, freed |-> <<>>]
    /\ UNCHANGED <<head, nregions, region_data, region_next, bufs, peak,
                   allocs, written, dirtied>>
    /\ AllocOnly

\* A variant of the drop loop that gives up the rest of the list after the
\* first region.
SystemDropLoopOnce ==
    /\ dropped.pc = "running"
    /\ head # None
    /\ head' = None
    /\ region_next' = [region_next EXCEPT ![head] = None]
    /\ dropped' = [dropped EXCEPT !.freed = Append(@, head)]
    /\ UNCHANGED <<nregions, region_data, bufs, peak, allocs, written, dirtied>>
    /\ AllocOnly

\* Drop for System, one turn of the loop: head.take() yields a region, the
\* head becomes its next (next.take()), and the region is deallocated.
SystemDropLoop ==
    /\ dropped.pc = "running"
    /\ head # None
    /\ head' = region_next[head]
    /\ region_next' = [region_next EXCEPT ![head] = None]
    /\ dropped' = [dropped EXCEPT !.freed = Append(@, head)]
    /\ UNCHANGED <<nregions, region_data, bufs, peak, allocs, written, dirtied>>
    /\ AllocOnly

\* Drop for System: head.take() yields None and the loop ends.
SystemDropEnd ==
    /\ dropped.pc = "running"
    /\ head = None
    /\ dropped' = [dropped EXCEPT !.pc = "done"]
    /\ UNCHANGED <<head, nregions, region_data, region_next, bufs, peak,
                   allocs, written, dirtied>>
    /\ AllocOnly

NextAlloc ==
    \/ \E h \in Handles : Alloc(h)
    \/ \E h \in Handles : \E bytes \in WriteInputs : Write(h, bytes)
    \/ \E h \in Handles : DropBuf(h)

\* The life of an allocator up to and including its drop.
NextAllocDrop ==
    \/ \E h \in Handles : Alloc(h)
    \/ \E h \in Handles : \E bytes \in WriteInputs : Write(h, bytes)
    \/ \E h \in Handles : DropBuf(h)
    \/ SystemDrop
    \/ SystemDropLoop
    \/ SystemDropEnd

\* ------------------------------------------------------------- context
NoEntry == [kind |-> "none", index |-> 0, key |-> ""]
IndexEntry(i) == [kind |-> "index", index |-> i, key |-> ""]
KeyEntry(k) == [kind |-> "key", index |-> 0, key |-> k]
FieldEntry(name) == [kind |-> "field", index |-> 0, key |-> name]

\* Context::enter_sequence_index / leave_sequence_index
EnterSequenceIndex(p, i) == Append(p, IndexEntry(i))
LeaveSequenceIndex(p) == IF p = <<>> THEN p ELSE SubSeq(p, 1, Len(p) - 1)

\* Context::enter_map_key / leave_map_key
EnterMapKey(p, k) == Append(p, KeyEntry(k))
LeaveMapKey(p) == IF p = <<>> THEN p ELSE SubSeq(p, 1, Len(p) - 1)

\* The path entry of a record field is entered and left around its decode.
EnterField(p, name) == Append(p, FieldEntry(name))
LeaveField(p) == IF p = <<>> THEN p ELSE SubSeq(p, 1, Len(p) - 1)

\* The rendering of one path entry and of a whole path.
RenderEntry(e) ==
    IF e.kind = "index" THEN "[" \o ToString(e.index) \o "]"
    ELSE IF e.kind = "key" THEN "[" \o e.key \o "]"
    ELSE IF e.kind = "field" THEN "." \o e.key
    ELSE ""

RECURSIVE RenderPath(_)
RenderPath(p) ==
    IF p = <<>> THEN "" ELSE RenderEntry(Head(p)) \o RenderPath(Tail(p))

\* ------------------------------------- sequence! and map! (trace) impls
SeqOps == {"seq_encode", "seq_encode_packed", "seq_decode"}
MapOps == {"map_trace_encode", "map_trace_decode"}
\* map! Decode::decode: the entries are decoded by the driver, no path entry
\* is entered.
PlainOps == {"map_decode"}
DecodeOps == {"seq_decode", "map_trace_decode", "map_decode"}
Keys == {"Hello", "k"}

\* The collection an Err carries: none.
NoOut == 0 - 1
NoRet == [op |-> "none", ok |-> TRUE, entry_path |-> <<>>, exit_path |-> <<>>,
          index |-> 0, out |-> NoOut]

TraceInit ==
    /\ path = <<>>
    /\ errors = <<>>
    /\ stack = <<>>
    /\ unwinding = FALSE
    /\ ret = NoRet
    /\ failed = FALSE

Top == stack[Len(stack)]
SetTop(f) == [stack EXCEPT ![Len(stack)] = f]
Pop == SubSeq(stack, 1, Len(stack) - 1)

\* The entries of the elements whose encode/decode is in progress, outermost
\* first.
OpenEntries ==
    LET curs == [i \in 1..Len(stack) |-> stack[i].cur]
        IsOpen(e) == e # NoEntry
    IN SelectSeq(curs, IsOpen)

\* An error raised through the context at the current point.
Raise(text) ==
    Append(errors, [path |-> RenderPath(path), message |-> text,
                    open |-> OpenEntries, paired |-> ~failed])

\* A variant of the leave call after an element in which the call is missing.
LeaveElementMissing(p, op) == p

\* The leave call made after an element was handled successfully.
LeaveElement(p, op) ==
    IF op \in SeqOps THEN LeaveSequenceIndex(p) ELSE LeaveMapKey(p)

\* The state of one call: `entered` is history, the indices the loop has
\* entered so far.
NewFrame(op, p) ==
    [op |-> op, index |-> 0, cur |-> NoEntry, sub |-> "none", entry_path |-> p,
     entered |-> <<>>]

\* The outermost caller makes a new context and enters Encode::encode,
\* EncodePacked::encode_packed, Decode::decode, trace_encode or trace_decode
\* of a collection with it.
Call(op) ==
    /\ ~unwinding
    /\ stack = <<>>
    /\ path' = <<>>
    /\ errors' = <<>>
    /\ failed' = FALSE
    /\ ret' = NoRet
    /\ stack' = <<NewFrame(op, <<>>)>>
    /\ UNCHANGED unwinding
    /\ TraceOnly

\* The encode/decode of the element in progress is itself that of a
\* collection.
CallNested(op) ==
    /\ ~unwinding
    /\ stack # <<>>
    /\ Len(stack) < MaxDepth
    /\ Top.cur # NoEntry
    /\ Top.sub = "pending"
    /\ stack' = Append(stack, NewFrame(op, path))
    /\ UNCHANGED <<path, errors, unwinding, ret, failed>>
    /\ TraceOnly

\* sequence!: the loop finds a next element and enters its index.
SeqEnter ==
    /\ ~unwinding
    /\ stack # <<>>
    /\ Top.op \in SeqOps
    /\ Top.cur = NoEntry
    /\ Top.index < MaxElems
    /\ path' = EnterSequenceIndex(path, Top.index)
    /\ stack' = SetTop([Top EXCEPT !.cur = IndexEntry(Top.index),
                                   !.sub = "pending",
                                   !.entered = Append(@, Top.index)])
    /\ UNCHANGED <<errors, unwinding, ret, failed>>
    /\ TraceOnly

\* sequence! Decode::decode: try_decode_next()? fails.
SeqNextErr ==
    /\ ~unwinding
    /\ stack # <<>>
    /\ Top.op = "seq_decode"
    /\ Top.cur = NoEntry
    /\ errors' = Raise("next")
    /\ unwinding' = TRUE
    /\ UNCHANGED <<path, stack, ret, failed>>
    /\ TraceOnly

\* map! trace_encode: the key of the next entry is entered, then the entry is
\* encoded. trace_decode: the key is decoded, then entered.
MapEnter(k) ==
    /\ ~unwinding
    /\ stack # <<>>
    /\ Top.op \in MapOps
    /\ Top.cur = NoEntry
    /\ Top.index < MaxElems
    /\ path' = EnterMapKey(path, k)
    /\ stack' = SetTop([Top EXCEPT !.cur = KeyEntry(k), !.sub = "pending"])
    /\ UNCHANGED <<errors, unwinding, ret, failed>>
    /\ TraceOnly

\* A variant of a failing key in which the key is entered before it is decoded.
MapKeyErrUnderKey ==
    /\ ~unwinding
    /\ stack # <<>>
    /\ Top.op = "map_trace_decode"
    /\ Top.cur = NoEntry
    /\ errors' = Append(errors, [path |-> RenderPath(EnterMapKey(path, "k")),
                                 message |-> "key",
                                 open |-> Append(OpenEntries, KeyEntry("k")),
                                 paired |-> ~failed])
    /\ unwinding' = TRUE
    /\ UNCHANGED <<path, stack, ret, failed>>
    /\ TraceOnly

\* map! trace_decode: decode_entry()? or the decode of the key fails.
MapKeyErr ==
    /\ ~unwinding
    /\ stack # <<>>
    /\ Top.op = "map_trace_decode"
    /\ Top.cur = NoEntry
    /\ errors' = Raise("key")
    /\ unwinding' = TRUE
    /\ UNCHANGED <<path, stack, ret, failed>>
    /\ TraceOnly

\* A variant of a failing element in which the error is recorded and the loop
\* goes on with the next element.
ElemErrContinue ==
    /\ ~unwinding
    /\ stack # <<>>
    /\ Top.cur # NoEntry
    /\ Top.sub = "pending"
    /\ errors' = Raise("element")
    /\ path' = LeaveElement(path, Top.op)
    /\ stack' = SetTop([Top EXCEPT !.cur = NoEntry, !.sub = "none",
                                   !.index = @ + 1])
    /\ UNCHANGED <<unwinding, ret, failed>>
    /\ TraceOnly

\* The encode/decode of the element in progress fails: the error is raised
\* through the context and returned.
ElemErr ==
    /\ ~unwinding
    /\ stack # <<>>
    /\ Top.cur # NoEntry
    /\ Top.sub = "pending"
    /\ errors' = Raise("element")
    /\ unwinding' = TRUE
    /\ UNCHANGED <<path, stack, ret, failed>>
    /\ TraceOnly

\* A variant of the end of an element in which the index is not advanced.
ElemDoneSameIndex ==
    /\ ~unwinding
    /\ stack # <<>>
    /\ Top.cur # NoEntry
    /\ path' = LeaveElement(path, Top.op)
    /\ stack' = SetTop([Top EXCEPT !.cur = NoEntry, !.sub = "none"])
    /\ UNCHANGED <<errors, unwinding, ret, failed>>
    /\ TraceOnly

\* The encode/decode of the element in progress returned Ok: the element is
\* inserted, its entry is left and the loop goes on.
ElemDone ==
    /\ ~unwinding
    /\ stack # <<>>
    /\ Top.cur # NoEntry
    /\ path' = LeaveElement(path, Top.op)
    /\ stack' = SetTop([Top EXCEPT !.cur = NoEntry, !.sub = "none",
                                   !.index = @ + 1])
    /\ UNCHANGED <<errors, unwinding, ret, failed>>
    /\ TraceOnly

\* map! Decode::decode: entry()? yields an entry, which is inserted.
MapEntry ==
    /\ ~unwinding
    /\ stack # <<>>
    /\ Top.op \in PlainOps
    /\ Top.index < MaxElems
    /\ stack' = SetTop([Top EXCEPT !.index = @ + 1])
    /\ UNCHANGED <<path, errors, unwinding, ret, failed>>
    /\ TraceOnly

\* map! Decode::decode: entry()? fails.
MapEntryErr ==
    /\ ~unwinding
    /\ stack # <<>>
    /\ Top.op \in PlainOps
    /\ errors' = Raise("entry")
    /\ unwinding' = TRUE
    /\ UNCHANGED <<path, stack, ret, failed>>
    /\ TraceOnly

\* The loop ends and the collection's encode/decode returns Ok.
End ==
    /\ ~unwinding
    /\ stack # <<>>
    /\ Top.cur = NoEntry
    /\ ret' = [op |-> Top.op, ok |-> TRUE, entry_path |-> Top.entry_path,
               exit_path |-> path, index |-> Top.index, out |-> Top.index]
    /\ stack' = IF Len(stack) = 1 THEN <<>>
                ELSE [Pop EXCEPT ![Len(stack) - 1].sub = "returned"]
    /\ UNCHANGED <<path, errors, unwinding, failed>>
    /\ TraceOnly

\* The ? operator: the innermost call in progress returns the Err to its caller.
Propagate ==
    /\ unwinding
    /\ stack # <<>>
    /\ ret' = [op |-> Top.op, ok |-> FALSE, entry_path |-> Top.entry_path,
               exit_path |-> path, index |-> Top.index, out |-> NoOut]
    /\ stack' = Pop
    /\ unwinding' = (Len(stack) > 1)
    /\ failed' = TRUE
    /\ UNCHANGED <<path, errors>>
    /\ TraceOnly

NextTrace ==
    \/ \E op \in SeqOps \cup MapOps \cup PlainOps : Call(op)
    \/ \E op \in SeqOps \cup MapOps \cup PlainOps : CallNested(op)
    \/ SeqEnter
    \/ SeqNextErr
    \/ \E k \in Keys : MapEnter(k)
    \/ MapKeyErr
    \/ ElemErr
    \/ ElemDone
    \/ MapEntry
    \/ MapEntryErr
    \/ End
    \/ Propagate

\* ---------------------------------------------------------- value tree
\* Value
Unit == <<"Unit">>
Bool(b) == <<"Bool", b>>
Number(n) == <<"Number", n>>
String(str) == <<"String", str>>
OptionNone == <<"Option", <<>>>>
OptionSome(v) == <<"Option", <<v>>>>
Sequence(vs) == <<"Sequence", vs>>
Map(ps) == <<"Map", ps>>
Variant(tag, v) == <<"Variant", tag, v>>

\* The values written by the primitive calls other than encode_unit:
\* encode_bool, encode_u8 .. encode_f64, encode_string / encode_bytes,
\* encode_none.
PrimValues == {Number(7), OptionNone}
\* The tags given to encode_*_variant, as the Values their encoding writes.
TagValues == {Number(7), String("s")}

\* The output of a ValueEncoder: the slot it writes to and the number of
\* SomeValueWriter layers around it. The slot belongs to the builder the
\* encoder was obtained from, or is the outermost Value ("root").
NoEnc == [field |-> "none", somes |-> 0]
Out(field) == [field |-> field, somes |-> 0]

NewBuilder(kind, proto, out, tag, snap) ==
    [kind |-> kind, proto |-> proto, out |-> out, values |-> <<>>,
     pair |-> <<Unit, Unit>>, variant |-> tag, snap |-> snap,
     prims |-> <<>>, clean |-> TRUE, pend |-> <<"Nothing">>, phase |-> "none"]

\* SomeValueWriter::write, once per layer.
RECURSIVE Wrap(_, _)
Wrap(v, n) == IF n = 0 THEN v ELSE OptionSome(Wrap(v, n - 1))

\* A variant of ValueOutput::write in which the pairs of a map are kept as
\* in a hash table: a pair replaces the pair that has its key.
WriteIntoHashTable(b, field, v) ==
    LET same == {i \in DOMAIN b.values : b.values[i][1] = v[1]}
    IN CASE field = "values" -> [b EXCEPT !.values = Append(@, v)]
         [] field = "pairs" ->
              IF same = {} THEN [b EXCEPT !.values = Append(@, v)]
              ELSE [b EXCEPT !.values = [i \in DOMAIN @ |->
                                           IF i \in same THEN v ELSE @[i]]]
         [] field = "pair0" -> [b EXCEPT !.pair[1] = v]
         [] field = "pair1" -> [b EXCEPT !.pair[2] = v]
         [] field = "last0" -> [b EXCEPT !.values[Len(b.values)][1] = v]
         [] field = "last1" -> [b EXCEPT !.values[Len(b.values)][2] = v]

\* ValueOutput::write on a slot of builder b.
WriteInto(b, field, v) ==
    CASE field = "values" -> [b EXCEPT !.values = Append(@, v)]
      [] field = "pairs" -> [b EXCEPT !.values = Append(@, v)]
      [] field = "pair0" -> [b EXCEPT !.pair[1] = v]
      [] field = "pair1" -> [b EXCEPT !.pair[2] = v]
      [] field = "last0" -> [b EXCEPT !.values[Len(b.values)][1] = v]
      [] field = "last1" -> [b EXCEPT !.values[Len(b.values)][2] = v]

\* What a slot of builder b holds.
SlotContent(b, field) ==
    CASE field = "values" -> b.values
      [] field = "pairs" -> b.values
      [] field = "pair0" -> b.pair[1]
      [] field = "pair1" -> b.pair[2]
      [] field = "last0" -> b.values[Len(b.values)][1]
      [] field = "last1" -> b.values[Len(b.values)][2]

\* What the output `out` holds, when it belongs to the t-th builder of bs
\* (to the outermost Value when t = 0).
TargetContent(bs, t, out) ==
    IF t = 0 THEN sink ELSE SlotContent(bs[t], out.field)

\* ValueOutput::write of v to output `out` of the t-th builder of bs: the
\* new outermost Value and the new builders.
Deliver(bs, t, out, v) ==
    IF t = 0
    THEN [sink |-> Wrap(v, out.somes), builders |-> bs]
    ELSE [sink |-> sink,
          builders |-> [bs EXCEPT ![t] = WriteInto(@, out.field, Wrap(v, out.somes))]]

\* A variant of end in which VariantValueEncoder writes the value of the
\* variant without its tag.
BuiltValueUntagged(b) ==
    CASE b.kind = "SequenceValueEncoder" -> Sequence(b.values)
      [] b.kind = "MapValueEncoder" -> Map(b.values)
      [] b.kind = "PairValueEncoder" -> b.pair
      [] b.kind = "VariantValueEncoder" -> b.pair[2]
      [] b.kind = "VariantSequenceEncoder" -> Variant(b.variant, Sequence(b.values))
      [] b.kind = "VariantStructEncoder" -> Variant(b.variant, Map(b.values))

\* The Value a builder writes in end.
BuiltValue(b) ==
    CASE b.kind = "SequenceValueEncoder" -> Sequence(b.values)
      [] b.kind = "MapValueEncoder" -> Map(b.values)
      [] b.kind = "PairValueEncoder" -> b.pair
      [] b.kind = "VariantValueEncoder" -> Variant(b.pair[1], b.pair[2])
      [] b.kind = "VariantSequenceEncoder" -> Variant(b.variant, Sequence(b.values))
      [] b.kind = "VariantStructEncoder" -> Variant(b.variant, Map(b.values))

NoStep == [step |-> "none", value |-> Unit, expected |-> <<>>, clean |-> FALSE,
           somes |-> 0, prim |-> "none", kind |-> "none", ordered |-> FALSE,
           misuse |-> FALSE]

\* What was last put into the output `field` of the t-th builder of bs (into
\* the outermost Value sinkval when t = 0); Nothing for an empty Vec.
Nothing == <<"Nothing">>
Latest(sinkval, bs, t, field) ==
    IF t = 0 THEN sinkval
    ELSE IF field \in {"values", "pairs"}
    THEN IF bs[t].values = <<>> THEN Nothing
         ELSE bs[t].values[Len(bs[t].values)]
    ELSE SlotContent(bs[t], field)

\* History of a primitive call of value v on the encoder enc.
PrimStep(name, v, sinkval, bs) ==
    [NoStep EXCEPT !.step = "prim",
                   !.value = Latest(sinkval, bs, Len(bs), enc.field),
                   !.expected = Wrap(v, enc.somes),
                   !.somes = enc.somes,
                   !.prim = name]

\* History of a call of encode_map_entry_key / encode_map_entry_value: the
\* call is a misuse when the accessor before it was not finished by its
\* counterpart.
AccessorStep(name, misuse) ==
    [NoStep EXCEPT !.step = "accessor", !.prim = name, !.misuse = misuse]

\* History kept with a map builder: the pairs of the entries completed so
\* far, as they stood when they were completed. An entry made with
\* encode_entry / encode_field is completed by the end of its
\* PairValueEncoder; an entry made with encode_map_entry_key is completed when
\* the encoder got from encode_map_entry_value is, after the encoder of the
\* key was. The builder stays `clean` while the calls come in that order.
Completed(bs, t, field) ==
    IF t = 0 THEN bs
    ELSE LET b == bs[t]
             n == Len(b.values)
         IN CASE field = "pairs" ->
                   [bs EXCEPT ![t].prims = Append(@, b.values[n])]
              [] field = "last0" ->
                   [bs EXCEPT ![t].pend = b.values[n][1]]
              [] field = "last1" ->
                   IF b.pend = Nothing
                   THEN [bs EXCEPT ![t].clean = FALSE]
                   ELSE [bs EXCEPT ![t].prims = Append(@, <<b.pend, b.values[n][2]>>),
                                   ![t].pend = Nothing]
              [] OTHER -> bs

\* The encoder of a key or value of an entry is dropped without a call, or
\* the builder made from it is dropped without end.
Abandoned(bs, t, field) ==
    IF t > 0 /\ field \in {"last0", "last1"}
    THEN [bs EXCEPT ![t].clean = FALSE]
    ELSE bs

ValueInit ==
    /\ sink = Unit
    /\ builders = <<>>
    /\ enc = Out("root")
    /\ verr = ""
    /\ nodes = 0
    /\ last = NoStep

Depth == Len(builders)
Cur == builders[Depth]
Idle == enc = NoEnc /\ Depth > 0
\* An encoder call that writes a Value or makes a builder is counted.
Count == nodes < MaxNodes /\ nodes' = nodes + 1
\* encode_unit writes no Value: it is counted when it is made for an element
\* of a sequence.
CountElement == IF enc.field = "values" THEN Count ELSE UNCHANGED nodes

\* History kept with a sequence builder: the Values of the primitive calls
\* that completed the encoders of its encode_next calls.
NotePrim(bs, v) ==
    IF Depth > 0 /\ enc.field = "values"
    THEN [bs EXCEPT ![Depth].prims = Append(@, v)]
    ELSE bs
NoteOther(bs) ==
    IF Depth > 0 /\ enc.field = "values"
    THEN [bs EXCEPT ![Depth].clean = FALSE]
    ELSE bs

\* A new outermost Value and a ValueEncoder for it (ValueEncoder::new).
NewEncoder ==
    /\ enc = NoEnc
    /\ Depth = 0
    /\ sink' = Unit
    /\ enc' = Out("root")
    /\ verr' = ""
    /\ nodes' = 0
    /\ last' = NoStep
    /\ UNCHANGED builders
    /\ ValueOnly

\* ValueEncoder::encode_unit
EncodeUnit ==
    /\ enc # NoEnc
    /\ enc' = NoEnc
    /\ builders' = Completed(NotePrim(builders, Unit), Depth, enc.field)
    /\ verr' = ""
    /\ last' = PrimStep("unit", Unit, sink, builders)
    /\ UNCHANGED sink
    /\ CountElement
    /\ ValueOnly

\* ValueEncoder::encode_bool, encode_char, encode_u8 .. encode_f64,
\* encode_bytes, encode_string, encode_none
EncodePrim(v) ==
    /\ enc # NoEnc
    /\ LET d == Deliver(builders, Depth, enc, v)
       IN /\ sink' = d.sink
          /\ builders' = Completed(NotePrim(d.builders, v), Depth, enc.field)
          /\ last' = PrimStep(IF v = OptionNone THEN "none" ELSE "other",
                               v, d.sink, d.builders)
    /\ enc' = NoEnc
    /\ verr' = ""
    /\ Count
    /\ ValueOnly

\* ValueEncoder::encode_some
EncodeSome ==
    /\ enc # NoEnc
    /\ enc' = [enc EXCEPT !.somes = @ + 1]
    /\ builders' = NoteOther(builders)
    /\ verr' = ""
    /\ last' = NoStep
    /\ UNCHANGED sink
    /\ Count
    /\ ValueOnly

\* A ValueEncoder is dropped without a call.
DropEncoder ==
    /\ enc # NoEnc
    /\ Depth > 0
    /\ enc' = NoEnc
    /\ builders' = Abandoned(NoteOther(builders), Depth, enc.field)
    /\ verr' = ""
    /\ last' = NoStep
    /\ UNCHANGED sink
    /\ UNCHANGED nodes
    /\ ValueOnly

\* The builder made by an entry point of ValueEncoder. SequenceValueEncoder
\* keeps nothing of the entry point that made it.
Begin(kind, proto, tag) ==
    /\ enc # NoEnc
    /\ builders' = Append(NoteOther(builders),
                          NewBuilder(kind, proto, enc, tag,
                                     TargetContent(builders, Depth, enc)))
    /\ enc' = NoEnc
    /\ verr' = ""
    /\ last' = NoStep
    /\ UNCHANGED sink
    /\ Count
    /\ ValueOnly

\* ValueEncoder::encode_pack, encode_sequence, encode_tuple
EncodeSequence(proto) == Begin("SequenceValueEncoder", "sequence", Unit)

\* ValueEncoder::encode_map, encode_map_entries, encode_struct
EncodeMap(proto) == Begin("MapValueEncoder", proto, Unit)

\* ValueEncoder::encode_variant
EncodeVariant == Begin("VariantValueEncoder", "variant", Unit)

\* A variant of encode_tuple_variant that encodes the tag with the encoder's
\* own output instead of a local Value.
EncodeTupleVariantTagToOutput(tag) ==
    /\ enc # NoEnc
    /\ LET d == Deliver(builders, Depth, enc, tag)
       IN /\ sink' = d.sink
          /\ builders' = Append(NoteOther(d.builders),
                                NewBuilder("VariantSequenceEncoder", "sequence",
                                           enc, Unit,
                                           TargetContent(builders, Depth, enc)))
    /\ enc' = NoEnc
    /\ verr' = ""
    /\ last' = NoStep
    /\ Count
    /\ ValueOnly

\* ValueEncoder::encode_tuple_variant: the tag is encoded into a local Value.
EncodeTupleVariant(tag) == Begin("VariantSequenceEncoder", "sequence", tag)

\* ValueEncoder::encode_struct_variant: the tag is encoded into a local Value.
EncodeStructVariant(tag) == Begin("VariantStructEncoder", "struct", tag)

\* ValueEncoder::encode_unit_variant: encode_variant, the tag, encode_unit for
\* the value, end.
EncodeUnitVariant(tag) ==
    /\ enc # NoEnc
    /\ LET b == [NewBuilder("VariantValueEncoder", "variant", enc, Unit, Unit)
                   EXCEPT !.pair[1] = tag]
           d == Deliver(builders, Depth, enc, BuiltValue(b))
       IN /\ sink' = d.sink
          /\ builders' = Completed(NoteOther(d.builders), Depth, enc.field)
          /\ last' = [NoStep EXCEPT
                         !.step = "unit_variant",
                         !.value = Latest(d.sink, d.builders, Depth, enc.field),
                         !.expected = Wrap(Variant(tag, Unit), enc.somes)]
    /\ enc' = NoEnc
    /\ verr' = ""
    /\ Count
    /\ ValueOnly

\* SequenceEncoder::encode_next of SequenceValueEncoder and of
\* VariantSequenceEncoder
EncodeNext ==
    /\ Idle
    /\ Cur.kind \in {"SequenceValueEncoder", "VariantSequenceEncoder"}
    /\ enc' = Out("values")
    /\ verr' = ""
    /\ last' = NoStep
    /\ UNCHANGED <<sink, builders>>
    /\ UNCHANGED nodes
    /\ ValueOnly

\* MapEncoder::encode_entry and StructEncoder::encode_field of
\* MapValueEncoder, StructEncoder::encode_field of VariantStructEncoder
EncodeEntry ==
    /\ Idle
    /\ \/ Cur.kind = "MapValueEncoder" /\ Cur.proto \in {"map", "struct"}
       \/ Cur.kind = "VariantStructEncoder"
    /\ builders' = Append(builders,
                          NewBuilder("PairValueEncoder", "pair", Out("pairs"),
                                     Unit, Cur.values))
    /\ verr' = ""
    /\ last' = NoStep
    /\ UNCHANGED <<sink, enc>>
    /\ Count
    /\ ValueOnly

\* MapEntryEncoder::encode_map_key / encode_map_value and
\* StructFieldEncoder::encode_field_name / encode_field_value of
\* PairValueEncoder; VariantEncoder::encode_tag / encode_value
EncodeSlot(field) ==
    /\ Idle
    /\ Cur.kind \in {"PairValueEncoder", "VariantValueEncoder"}
    /\ enc' = Out(field)
    /\ verr' = ""
    /\ last' = NoStep
    /\ UNCHANGED <<sink, builders>>
    /\ UNCHANGED nodes
    /\ ValueOnly

\* MapEntriesEncoder::encode_map_entry_key
EncodeMapEntryKey ==
    /\ Idle
    /\ Cur.kind = "MapValueEncoder"
    /\ Cur.proto = "map_entries"
    /\ builders' = [builders EXCEPT ![Depth].values = Append(@, <<Unit, Unit>>),
                                    ![Depth].clean = @ /\ Cur.pend = Nothing,
                                    ![Depth].phase = "key"]
    /\ enc' = Out("last0")
    /\ verr' = ""
    /\ last' = AccessorStep("key", Cur.phase = "key")
    /\ UNCHANGED sink
    /\ Count
    /\ ValueOnly

\* MapEntriesEncoder::encode_map_entry_value
EncodeMapEntryValue ==
    /\ Idle
    /\ Cur.kind = "MapValueEncoder"
    /\ Cur.proto = "map_entries"
    /\ IF Cur.values = <<>>
       THEN /\ verr' = "Pair has not been encoded"
            /\ UNCHANGED enc
       ELSE /\ verr' = ""
            /\ enc' = Out("last1")
    /\ last' = AccessorStep("value", Cur.phase # "key")
    /\ builders' = [builders EXCEPT ![Depth].clean = @ /\ Cur.pend # Nothing,
                                    ![Depth].phase =
                                        IF Cur.values = <<>> THEN @ ELSE "value"]
    /\ UNCHANGED sink
    /\ UNCHANGED nodes
    /\ ValueOnly

\* end of the innermost builder: it writes its Value to its output.
EndBuilder ==
    /\ Idle
    /\ LET d == Deliver(SubSeq(builders, 1, Depth - 1), Depth - 1, Cur.out,
                        BuiltValue(Cur))
       IN /\ sink' = d.sink
          /\ builders' = Completed(d.builders, Depth - 1, Cur.out.field)
    /\ verr' = ""
    /\ last' = [NoStep EXCEPT
                   !.step = "end",
                   !.value = BuiltValue(Cur),
                   !.expected = Cur.prims,
                   !.clean = Cur.clean /\ Cur.kind = "SequenceValueEncoder",
                   !.kind = Cur.kind,
                   !.ordered = Cur.clean /\ Cur.pend = Nothing]
    /\ UNCHANGED enc
    /\ UNCHANGED nodes
    /\ ValueOnly

\* The innermost builder is dropped without end.
DropBuilder ==
    /\ Idle
    /\ builders' = Abandoned(SubSeq(builders, 1, Depth - 1), Depth - 1,
                              Cur.out.field)
    /\ UNCHANGED <<sink, enc>>
    /\ verr' = ""
    /\ last' = [NoStep EXCEPT
                   !.step = "drop",
                   !.value = IF Depth = 1 THEN sink'
                             ELSE SlotContent(builders'[Depth - 1], Cur.out.field),
                   !.expected = Cur.snap,
                   !.kind = Cur.kind]
    /\ UNCHANGED nodes
    /\ ValueOnly

NextValue ==
    \/ NewEncoder
    \/ EncodeUnit
    \/ \E v \in PrimValues : EncodePrim(v)
    \/ EncodeSome
    \/ DropEncoder
    \/ \E proto \in {"pack", "sequence", "tuple"} : EncodeSequence(proto)
    \/ \E proto \in {"map", "map_entries", "struct"} : EncodeMap(proto)
    \/ EncodeVariant
    \/ \E tag \in TagValues : EncodeTupleVariant(tag)
    \/ \E tag \in TagValues : EncodeStructVariant(tag)
    \/ \E tag \in TagValues : EncodeUnitVariant(tag)
    \/ EncodeNext
    \/ EncodeEntry
    \/ \E field \in {"pair0", "pair1"} : EncodeSlot(field)
    \/ EncodeMapEntryKey
    \/ EncodeMapEntryValue
    \/ EndBuilder
    \/ DropBuilder

\* ------------------------------------------------------------ JSON decode
\* Bytes are one-character strings; NoByte is the None of slice.get(index).
Quote == "\""
NoByte == ""
WhitespaceWithoutTab == {" ", "\n", "\r"}
Whitespace == {" ", "\n", "\t", "\r"}
Digits == {"0", "1", "2", "3", "4", "5", "6", "7", "8", "9"}

\* The bytes of the strings that occur in the records.
Chars(str) ==
    CASE str = "values" -> <<"v", "a", "l", "u", "e", "s">>
      [] str = "Hello" -> <<"H", "e", "l", "l", "o">>
      [] str = "World" -> <<"W", "o", "r", "l", "d">>
      [] str = "k" -> <<"k">>
      [] str = "42" -> <<"4", "2">>

\* The string made of a sequence of bytes.
RECURSIVE Join(_)
Join(bytes) == IF bytes = <<>> THEN "" ELSE Head(bytes) \o Join(Tail(bytes))

\* The values of the map entries: a string, as in the record From, or a
\* number, as in the record Collection.
StringVal(str) == [kind |-> "string", text |-> str]
NumberVal(str) == [kind |-> "number", text |-> str]
DocVals == {StringVal("World"), NumberVal("42")}
DocEntries == [key : Keys, val : DocVals]

RECURSIVE SeqsUpTo(_, _)
SeqsUpTo(S, n) ==
    IF n = 0 THEN {<<>>}
    ELSE LET shorter == SeqsUpTo(S, n - 1)
         IN shorter \cup {Append(q, x) : q \in shorter, x \in S}

\* The records written to JSON: the entries of the field `values`, and the
\* number of spaces the text has before each value (none in the text made
\* by to_vec_with).
Docs == [entries : SeqsUpTo(DocEntries, MaxEntries), pad : 0..MaxPad]
HelloWorld == [entries |-> <<[key |-> "Hello", val |-> StringVal("World")]>>,
               pad |-> 0]

\* The JSON text of a record.
StringText(str) == <<Quote>> \o Chars(str) \o <<Quote>>
ValText(v) == IF v.kind = "string" THEN StringText(v.text) ELSE Chars(v.text)
Pad(n) == [i \in 1..n |-> " "]
EntryHead(e, pad) == StringText(e.key) \o <<":">> \o Pad(pad)
EntryText(e, pad) == EntryHead(e, pad) \o ValText(e.val)

RECURSIVE EntriesText(_, _)
EntriesText(es, pad) ==
    IF es = <<>> THEN <<>>
    ELSE IF Len(es) = 1 THEN EntryText(es[1], pad)
    ELSE EntryText(es[1], pad) \o <<",">> \o EntriesText(Tail(es), pad)

\* The text up to the value of the i-th entry.
RECURSIVE EntriesPrefix(_, _, _)
EntriesPrefix(es, pad, i) ==
    IF i = 1 THEN EntryHead(es[1], pad)
    ELSE EntryText(es[1], pad) \o <<",">> \o EntriesPrefix(Tail(es), pad, i - 1)

RecordHead == <<"{">> \o StringText("values") \o <<":">> \o <<"{">>
JsonText(d) == RecordHead \o EntriesText(d.entries, d.pad) \o <<"}", "}">>

\* The parser together with the context it reports to: the state the
\* Parser methods read and change, the error they return (none: ""), the
\* mark the error was given, and the bytes they yield.
Parser == [index |-> index, mark |-> mark, err |-> "", start |-> mark,
           buf |-> <<>>]

\* Context::message / Context::marked_message
Message(p, text) == [p EXCEPT !.err = text, !.start = p.mark]
MarkedMessage(p, start, text) == [p EXCEPT !.err = text, !.start = start]

\* usize::wrapping_add, on words of WordBits bits.
RECURSIVE Pow2(_)
Pow2(k) == IF k = 0 THEN 1 ELSE 2 * Pow2(k - 1)
Word == 0..(Pow2(WordBits) - 1)
WrappingAdd(a, n) == (a + n) % Pow2(WordBits)

\* The test of skip and read: outcome > self.slice.len() || outcome <
\* self.index, with outcome = self.index.wrapping_add(n).
UnderflowsUpperTestOnly(ix, n, len) == WrappingAdd(ix, n) > len
Underflows(ix, n, len) ==
    LET outcome == WrappingAdd(ix, n)
    IN outcome > len \/ outcome < ix

\* SliceParser::peek_byte
ParserPeekByte(p) ==
    IF p.index < Len(slice) THEN slice[p.index + 1] ELSE NoByte

\* A variant of SliceParser::skip without the test.
ParserSkipUnchecked(p, n) ==
    [p EXCEPT !.index = WrappingAdd(p.index, n), !.mark = @ + n]

\* SliceParser::skip
ParserSkip(p, n) ==
    LET outcome == WrappingAdd(p.index, n)
    IN IF Underflows(p.index, n, Len(slice))
       THEN Message(p, "Buffer underflow")
       ELSE [p EXCEPT !.index = outcome, !.mark = @ + n]

\* A variant of SliceParser::read that does not report the bytes it consumed
\* to the context.
ParserReadNoAdvance(p, n) ==
    LET outcome == WrappingAdd(p.index, n)
    IN IF Underflows(p.index, n, Len(slice))
       THEN Message(p, "Buffer underflow")
       ELSE [p EXCEPT !.buf = SubSeq(slice, p.index + 1, outcome),
                      !.index = outcome]

\* SliceParser::read, with n the length of the buffer to fill
ParserRead(p, n) ==
    LET outcome == WrappingAdd(p.index, n)
    IN IF Underflows(p.index, n, Len(slice))
       THEN Message(p, "Buffer underflow")
       ELSE [p EXCEPT !.buf = SubSeq(slice, p.index + 1, outcome),
                      !.index = outcome,
                      !.mark = @ + n]

\* SliceParser::read_byte
ParserReadByte(p) == ParserRead(p, 1)

\* SliceParser::skip_whitespace
RECURSIVE ParserSkipWhitespace(_)
ParserSkipWhitespace(p) ==
    IF ParserPeekByte(p) \in Whitespace
    THEN ParserSkipWhitespace([p EXCEPT !.index = WrappingAdd(@, 1),
                                        !.mark = @ + 1])
    ELSE p

\* The bytes of a string up to its closing quote.
RECURSIVE StringBody(_, _, _)
StringBody(p, start, acc) ==
    IF ParserPeekByte(p) = NoByte
    THEN MarkedMessage(p, start, "Unexpected end of input")
    ELSE IF ParserPeekByte(p) = Quote
    THEN [ParserSkip(p, 1) EXCEPT !.buf = acc]
    ELSE StringBody(ParserSkip(p, 1), start, Append(acc, ParserPeekByte(p)))

\* SliceParser::parse_string
ParserParseString(p) ==
    LET start == p.mark
    IN IF ParserPeekByte(p) # Quote
       THEN MarkedMessage(p, start, "Expected string")
       ELSE StringBody(ParserSkip(p, 1), start, <<>>)

\* The byte expected next, after whitespace; nothing is done after an error.
Expect(p, byte) ==
    LET q == ParserSkipWhitespace(p)
    IN IF p.err # "" THEN p
       ELSE IF ParserPeekByte(q) = byte THEN ParserSkip(q, 1)
       ELSE Message(q, "Expected " \o byte)

\* The string expected next, after whitespace.
ExpectString(p) ==
    IF p.err # "" THEN p ELSE ParserParseString(ParserSkipWhitespace(p))

\* The digits that follow the first digit of a number.
RECURSIVE DigitsBody(_, _)
DigitsBody(p, acc) ==
    IF ParserPeekByte(p) \in Digits
    THEN DigitsBody(ParserSkip(p, 1), Append(acc, ParserPeekByte(p)))
    ELSE [p EXCEPT !.buf = acc]

\* The decode of an unsigned number: the position of the value is marked,
\* its first byte is read, and a byte that cannot start a number is reported
\* with the mark.
DecodeUnsigned(p) ==
    LET q == ParserSkipWhitespace(p)
        start == q.mark
        r == ParserReadByte(q)
    IN IF r.err # "" THEN r
       ELSE IF r.buf[1] \in Digits THEN DigitsBody(r, r.buf)
       ELSE MarkedMessage(r, start, "Invalid numeric")

\* The error made by the context: the rendered path, the message and the
\* byte range from the mark given to the position reached.
ContextError(p) ==
    [path |-> RenderPath(jpath), message |-> p.err,
     start |-> p.start, end |-> p.mark]

\* Display of an error.
Display(e) ==
    e.path \o ": " \o e.message \o " (at bytes " \o ToString(e.start)
           \o "-" \o ToString(e.end) \o ")"

JsonInit ==
    /\ doc = [entries |-> <<>>, pad |-> 0]
    /\ slice = <<>>
    /\ index = 0
    /\ mark = 0
    /\ jpath = <<>>
    /\ jerrors = <<>>
    /\ jout = <<>>
    /\ pc = "idle"

\* A decode step that ran the parser to p: on Ok the decode goes on at
\* `next`; on Err the error is reported and from_slice_with returns it.
Step(p, next, newpath, newout) ==
    /\ index' = p.index
    /\ mark' = p.mark
    /\ IF p.err = ""
       THEN /\ pc' = next
            /\ jpath' = newpath
            /\ jout' = newout
            /\ UNCHANGED jerrors
       ELSE /\ pc' = "failed"
            /\ jerrors' = Append(jerrors, ContextError(p))
            /\ UNCHANGED <<jpath, jout>>
    /\ UNCHANGED <<doc, slice>>
    /\ JsonOnly

\* The test: a record is written to JSON, and from_slice_with is called on
\* the bytes with a new context.
FromSliceWith(d) ==
    /\ pc \in {"idle", "done", "failed"}
    /\ doc' = d
    /\ slice' = JsonText(d)
    /\ index' = 0
    /\ mark' = 0
    /\ jpath' = <<>>
    /\ jerrors' = <<>>
    /\ jout' = <<>>
    /\ pc' = "record"
    /\ JsonOnly

\* The decode of the record Collection starts.
DecodeRecord ==
    /\ pc = "record"
    /\ Step(Expect(Parser, "{"), "field", jpath, jout)

\* The name of the field is decoded and entered.
DecodeFieldName ==
    /\ pc = "field"
    /\ LET name == ExpectString(Parser)
           p == Expect(name, ":")
       IN Step(p, "map", EnterField(jpath, Join(name.buf)), jout)

\* map! trace_decode: decoder.decode_map
DecodeMap ==
    /\ pc = "map"
    /\ Step(Expect(Parser, "{"), "entry", jpath, jout)

\* map! trace_decode: decode_entry()? yields an entry; its key is decoded and
\* entered.
DecodeEntry ==
    /\ pc = "entry"
    /\ ParserPeekByte(ParserSkipWhitespace(Parser)) # "}"
    /\ LET sep == IF jout = <<>> THEN Parser ELSE Expect(Parser, ",")
           key == ExpectString(sep)
           p == Expect(key, ":")
       IN Step(p, "value", EnterMapKey(jpath, Join(key.buf)), jout)

\* map! trace_decode: decode_entry()? yields None; the map is returned and
\* the field is left.
DecodeNoEntry ==
    /\ pc = "entry"
    /\ ParserPeekByte(ParserSkipWhitespace(Parser)) = "}"
    /\ Step(Expect(Parser, "}"), "end", LeaveField(jpath), jout)

\* map! trace_decode: the value is decoded, the entry is inserted and its
\* key is left.
DecodeValue ==
    /\ pc = "value"
    /\ LET p == DecodeUnsigned(Parser)
       IN Step(p, "entry", LeaveMapKey(jpath),
               Append(jout, <<jpath[Len(jpath)].key, Join(p.buf)>>))

\* The decode of the record ends and from_slice_with returns Ok.
DecodeEnd ==
    /\ pc = "end"
    /\ Step(Expect(Parser, "}"), "done", jpath, jout)

NextJson ==
    \/ \E d \in Docs : FromSliceWith(d)
    \/ DecodeRecord
    \/ DecodeFieldName
    \/ DecodeMap
    \/ DecodeEntry
    \/ DecodeNoEntry
    \/ DecodeValue
    \/ DecodeEnd

\* ------------------------------------------------- round trip of variants
\* The enums of tests/variants.rs. A variant has a name, a shape ("struct":
\* its fields are encoded as a struct with a tag per field; "packed": as a
\* pack) and the types of its fields.
VariantsOf(enum) ==
    CASE enum = "EmptyVariants" ->
           {[name |-> "Empty", shape |-> "struct", types |-> <<>>],
            [name |-> "Tuple", shape |-> "struct", types |-> <<>>],
            [name |-> "Struct", shape |-> "struct", types |-> <<>>]}
      [] enum = "NamedVariants" ->
           {[name |-> "Variant1", shape |-> "struct", types |-> <<"u32">>],
            [name |-> "Variant2", shape |-> "struct", types |-> <<"u32">>]}
      [] enum = "UntaggedVariants" ->
           {[name |-> "Empty", shape |-> "packed", types |-> <<>>],
            [name |-> "Tuple", shape |-> "packed", types |-> <<"u32", "u32">>],
            [name |-> "Struct", shape |-> "packed", types |-> <<"u32", "u32">>]}
      [] enum = "UntaggedSingleFields" ->
           {[name |-> "Variant1", shape |-> "packed", types |-> <<"String">>],
            [name |-> "Variant2", shape |-> "packed", types |-> <<"f64">>],
            [name |-> "Variant3", shape |-> "packed", types |-> <<"u64">>]}
Enums == {"EmptyVariants", "NamedVariants", "UntaggedVariants",
          "UntaggedSingleFields"}

\* The values of a field: numbers, and for a String the texts numbered by
\* them.
FieldVals == 0..MaxField
TextOf(n) == IF n = 0 THEN "hello" ELSE "hello" \o ToString(n)

\* The values of an enum.
EnumValues(enum) ==
    UNION {{[enum |-> enum, name |-> v.name, fields |-> f] :
               f \in [1..Len(v.types) -> FieldVals]} : v \in VariantsOf(enum)}
NoEnum == [enum |-> "none", name |-> "", fields |-> <<>>]

\* Encode of a field by its type: encode_u32 / encode_u64 / encode_f64 write
\* a Number, encode_string a String.
EncodeField(type, x) == IF type = "String" THEN String(TextOf(x)) ELSE Number(x)

\* Decode of a field by its type; -1 when the Value is of another kind.
DecodeField(type, v) ==
    IF type = "String"
    THEN IF v[1] = "String" /\ \E n \in FieldVals : TextOf(n) = v[2]
         THEN CHOOSE n \in FieldVals : TextOf(n) = v[2]
         ELSE -1
    ELSE IF v[1] = "Number" THEN v[2] ELSE -1

\* encode_pack: encode_next and a field per element, then end.
RECURSIVE PackBuilder(_, _)
PackBuilder(types, fields) ==
    IF types = <<>>
    THEN NewBuilder("SequenceValueEncoder", "sequence", Out("pair1"), Unit, Unit)
    ELSE LET n == Len(types)
         IN WriteInto(PackBuilder(SubSeq(types, 1, n - 1), SubSeq(fields, 1, n - 1)),
                      "values", EncodeField(types[n], fields[n]))

\* encode_struct: encode_field per field, with the index of the field as its
\* name, each ended, then end.
RECURSIVE StructBuilder(_, _)
StructBuilder(types, fields) ==
    IF types = <<>>
    THEN NewBuilder("MapValueEncoder", "struct", Out("pair1"), Unit, Unit)
    ELSE LET n == Len(types)
             pair == NewBuilder("PairValueEncoder", "pair", Out("pairs"), Unit, Unit)
             named == WriteInto(pair, "pair0", Number(n - 1))
             done == WriteInto(named, "pair1", EncodeField(types[n], fields[n]))
         IN WriteInto(StructBuilder(SubSeq(types, 1, n - 1), SubSeq(fields, 1, n - 1)),
                      "pairs", BuiltValue(done))

\* The variant an enum value is of.
VariantOf(x) == CHOOSE v \in VariantsOf(x.enum) : v.name = x.name

\* Encode of an enum value to a Value: encode_variant, the name of the
\* variant as tag, the fields as value, end.
EncodeEnum(x) ==
    LET v == VariantOf(x)
        variant == NewBuilder("VariantValueEncoder", "variant", Out("root"), Unit, Unit)
        tagged == WriteInto(variant, "pair0", String(v.name))
        data == IF v.shape = "packed"
                THEN BuiltValue(PackBuilder(v.types, x.fields))
                ELSE BuiltValue(StructBuilder(v.types, x.fields))
    IN BuiltValue(WriteInto(tagged, "pair1", data))

\* Decode of the fields of a variant from its payload.
DecodeFields(v, data) ==
    IF v.shape = "packed"
    THEN IF data[1] = "Sequence" /\ Len(data[2]) = Len(v.types)
         THEN [i \in 1..Len(v.types) |-> DecodeField(v.types[i], data[2][i])]
         ELSE <<-1>>
    ELSE IF data[1] = "Map" /\ Len(data[2]) = Len(v.types)
              /\ \A i \in 1..Len(v.types) :
                    \E j \in 1..Len(data[2]) : data[2][j][1] = Number(i - 1)
         THEN [i \in 1..Len(v.types) |->
                 LET j == CHOOSE j \in 1..Len(data[2]) : data[2][j][1] = Number(i - 1)
                 IN DecodeField(v.types[i], data[2][j][2])]
         ELSE <<-1>>

\* Decode of a Value to a value of the enum: the variant is chosen by the
\* tag alone; NoEnum when no variant has the tag.
DecodeEnum(enum, value) ==
    IF value[1] = "Variant" /\ value[2][1] = "String"
       /\ \E v \in VariantsOf(enum) : v.name = value[2][2]
    THEN LET v == CHOOSE v \in VariantsOf(enum) : v.name = value[2][2]
         IN [enum |-> enum, name |-> v.name, fields |-> DecodeFields(v, value[3])]
    ELSE NoEnum

VariantInit ==
    /\ rt_in = <<NoEnum, NoEnum>>
    /\ rt_value = <<Unit, Unit>>
    /\ rt_out = <<NoEnum, NoEnum>>
    /\ rt_pc = "idle"

\* Two values of one enum are encoded.
RoundTripEncode(x, y) ==
    /\ rt_pc \in {"idle", "decoded"}
    /\ rt_in' = <<x, y>>
    /\ rt_value' = <<EncodeEnum(x), EncodeEnum(y)>>
    /\ rt_out' = <<NoEnum, NoEnum>>
    /\ rt_pc' = "encoded"
    /\ VariantOnly

\* The two Values are decoded.
RoundTripDecode ==
    /\ rt_pc = "encoded"
    /\ rt_out' = <<DecodeEnum(rt_in[1].enum, rt_value[1]),
                   DecodeEnum(rt_in[2].enum, rt_value[2])>>
    /\ rt_pc' = "decoded"
    /\ UNCHANGED <<rt_in, rt_value>>
    /\ VariantOnly

NextVariant ==
    \/ \E enum \in Enums : \E x, y \in EnumValues(enum) : RoundTripEncode(x, y)
    \/ RoundTripDecode

\* ---------------------------------------------- round trip of Value trees
\* The Value trees that are encoded: leaves, and one level of Option,
\* Sequence, Map and Variant over them.
Leaves == {Unit, Bool(TRUE), Number(7), String("s"), OptionNone}
Trees ==
    Leaves
    \cup {OptionSome(v) : v \in Leaves}
    \cup {Sequence(vs) : vs \in SeqsUpTo(Leaves, MaxElems)}
    \cup {Map(ps) : ps \in SeqsUpTo(Leaves \X Leaves, MaxPairs)}
    \cup {Variant(t, v) : t \in Leaves, v \in Leaves}

\* What an output slot that started as Value::Unit holds after the writes ws.
Slot(ws) == IF ws = <<>> THEN Unit ELSE ws[Len(ws)]

RECURSIVE Flatten(_)
Flatten(wss) == IF wss = <<>> THEN <<>> ELSE Head(wss) \o Flatten(Tail(wss))

RECURSIVE WriteAll(_, _, _)
WriteAll(b, field, ws) ==
    IF ws = <<>> THEN b
    ELSE WriteAll(WriteInto(b, field, Head(ws)), field, Tail(ws))

\* The Values that the encode of the tree v writes to the output of the
\* ValueEncoder it is given: the encode calls the entry point of its kind
\* (encode_unit for Unit, encode_some / encode_none for Option,
\* encode_sequence and encode_next per element, encode_map and encode_entry
\* per pair, encode_variant with tag and value), and each entry point writes
\* as ValueEncoder and its builders do.
RECURSIVE Writes(_)
Writes(v) ==
    CASE v[1] = "Unit" -> <<>>
      [] v[1] \in {"Bool", "Number", "String"} -> <<v>>
      [] v[1] = "Option" ->
           IF v[2] = <<>> THEN <<OptionNone>>
           ELSE LET ws == Writes(v[2][1])
                IN [i \in 1..Len(ws) |-> Wrap(ws[i], 1)]
      [] v[1] = "Sequence" ->
           LET b == NewBuilder("SequenceValueEncoder", "sequence", Out("root"),
                               Unit, Unit)
               ws == Flatten([i \in 1..Len(v[2]) |-> Writes(v[2][i])])
           IN <<BuiltValue(WriteAll(b, "values", ws))>>
      [] v[1] = "Map" ->
           LET b == NewBuilder("MapValueEncoder", "map", Out("root"), Unit, Unit)
               pair == NewBuilder("PairValueEncoder", "pair", Out("pairs"),
                                  Unit, Unit)
               ws == [i \in 1..Len(v[2]) |->
                        BuiltValue(WriteAll(WriteAll(pair, "pair0", Writes(v[2][i][1])),
                                            "pair1", Writes(v[2][i][2])))]
           IN <<BuiltValue(WriteAll(b, "pairs", ws))>>
      [] v[1] = "Variant" ->
           LET b == NewBuilder("VariantValueEncoder", "variant", Out("root"),
                               Unit, Unit)
           IN <<BuiltValue(WriteAll(WriteAll(b, "pair0", Writes(v[2])),
                                    "pair1", Writes(v[3])))>>

\* musli_value::encode: the tree is encoded with a ValueEncoder whose output
\* is a Value that starts as Value::Unit.
ValueEncode(v) == Slot(Writes(v))

\* The decode of a Value tree from a Value: the Value is replayed through the
\* entry points of its kind and built again.
RECURSIVE ValueDecode(_)
ValueDecode(v) ==
    CASE v[1] = "Unit" -> Unit
      [] v[1] = "Bool" -> Bool(v[2])
      [] v[1] = "Number" -> Number(v[2])
      [] v[1] = "String" -> String(v[2])
      [] v[1] = "Option" ->
           IF v[2] = <<>> THEN OptionNone ELSE OptionSome(ValueDecode(v[2][1]))
      [] v[1] = "Sequence" -> Sequence([i \in 1..Len(v[2]) |-> ValueDecode(v[2][i])])
      [] v[1] = "Map" ->
           Map([i \in 1..Len(v[2]) |->
                  <<ValueDecode(v[2][i][1]), ValueDecode(v[2][i][2])>>])
      [] v[1] = "Variant" -> Variant(ValueDecode(v[2]), ValueDecode(v[3]))

TreeInit ==
    /\ vt_in = Unit
    /\ vt_value = Unit
    /\ vt_out = Unit
    /\ vt_pc = "idle"

\* A Value tree is encoded.
TreeEncode(v) ==
    /\ vt_pc \in {"idle", "decoded"}
    /\ vt_in' = v
    /\ vt_value' = ValueEncode(v)
    /\ vt_out' = Unit
    /\ vt_pc' = "encoded"
    /\ TreeOnly

\* What was encoded is decoded.
TreeDecode ==
    /\ vt_pc = "encoded"
    /\ vt_out' = ValueDecode(vt_value)
    /\ vt_pc' = "decoded"
    /\ UNCHANGED <<vt_in, vt_value>>
    /\ TreeOnly

NextTree ==
    \/ \E v \in Trees : TreeEncode(v)
    \/ TreeDecode

\* ------------------------------------------------- integers on the wire
\* Integers of IntBits bits are kept as their unsigned bit patterns,
\* 0 .. 2^IntBits - 1; a signed integer is the pattern of its two's
\* complement.

Signed == (0 - Pow2(IntBits - 1))..(Pow2(IntBits - 1) - 1)
ToUnsigned(n) == n % Pow2(IntBits)
ToSigned(u) == IF u >= Pow2(IntBits - 1) THEN u - Pow2(IntBits) ELSE u

\* Bitwise exclusive or of two patterns of k bits.
RECURSIVE Xor(_, _, _)
Xor(a, b, k) ==
    IF k = 0 THEN 0
    ELSE ((a + b) % 2) + 2 * Xor(a \div 2, b \div 2, k - 1)

\* n << 1, and n >> (bits - 1) as an arithmetic shift: every bit becomes the
\* sign bit.
ShiftLeftOne(u) == (2 * u) % Pow2(IntBits)
SignFill(u) == IF u >= Pow2(IntBits - 1) THEN Pow2(IntBits) - 1 ELSE 0

\* A variant of the zigzag transform with a logical shift: n >> (bits - 1)
\* is 0 or 1.
ZigzagEncodeLogicalShift(n) ==
    LET u == ToUnsigned(n)
    IN Xor(ShiftLeftOne(u), IF u >= Pow2(IntBits - 1) THEN 1 ELSE 0, IntBits)

\* zigzag: n -> (n << 1) XOR (n >> (bits - 1))
ZigzagEncode(n) ==
    LET u == ToUnsigned(n)
    IN Xor(ShiftLeftOne(u), SignFill(u), IntBits)

\* The inverse: u -> (u >> 1) XOR -(u & 1)
ZigzagDecode(u) ==
    ToSigned(Xor(u \div 2, IF u % 2 = 1 THEN Pow2(IntBits) - 1 ELSE 0, IntBits))

\* Payload bits of a byte of the continuation encoding; the bit above them
\* is the continuation flag.
PayloadBits == 7

\* continuation encoding: the least significant group first, each byte but
\* the last with the continuation flag, until the remaining magnitude is zero.
RECURSIVE ContinuationEncode(_)
ContinuationEncode(u) ==
    LET group == u % Pow2(PayloadBits)
        rest == u \div Pow2(PayloadBits)
    IN IF rest = 0 THEN <<group>>
       ELSE <<group + Pow2(PayloadBits)>> \o ContinuationEncode(rest)

\* continuation decoding: groups are added at their place until a byte
\* without the continuation flag; -1 when the bytes end before that.
RECURSIVE ContinuationDecode(_, _)
ContinuationDecode(bytes, place) ==
    IF bytes = <<>> THEN -1
    ELSE LET byte == Head(bytes)
             group == byte % Pow2(PayloadBits)
         IN IF byte < Pow2(PayloadBits) THEN group * Pow2(place)
            ELSE LET rest == ContinuationDecode(Tail(bytes), place + PayloadBits)
                 IN IF rest < 0 THEN -1 ELSE group * Pow2(place) + rest

IntInit ==
    /\ zz_n = 0
    /\ zz_bytes = <<>>
    /\ zz_out = 0
    /\ zz_pc = "idle"

\* A signed integer is written: zigzag, then continuation encoding.
IntEncode(n) ==
    /\ zz_pc \in {"idle", "decoded"}
    /\ zz_n' = n
    /\ zz_bytes' = ContinuationEncode(ZigzagEncode(n))
    /\ zz_out' = 0
    /\ zz_pc' = "encoded"
    /\ IntOnly

\* The bytes are read: continuation decoding, then the inverse of zigzag.
IntDecode ==
    /\ zz_pc = "encoded"
    /\ zz_out' = ZigzagDecode(ContinuationDecode(zz_bytes, 0))
    /\ zz_pc' = "decoded"
    /\ UNCHANGED <<zz_n, zz_bytes>>
    /\ IntOnly

NextInt ==
    \/ \E n \in Signed : IntEncode(n)
    \/ IntDecode

\* ------------------------------------------------------- specifications
\* ------------------------------- fixed-capacity allocator, collect_string
\* The fixed-capacity allocator: one pre-sized region of StackCapacity bytes,
\* handed out in disjoint sub-regions, one per alloc. A sub-region starts
\* where the bytes in use end and reaches to the end of the region until the
\* next alloc, which closes it at the bytes it holds by then.
StackBufs == 1..MaxStackBufs
NoBuf == [live |-> FALSE, start |-> 0, len |-> 0, limit |-> 0]
NoLast == [op |-> "none", h |-> 0, ok |-> TRUE, bytes |-> <<>>]
NoCall == [buf |-> 0, value |-> <<>>, result |-> "none"]

StackLive(sb) == {h \in StackBufs : sb[h].live}

\* The end of the bytes in use: where the next sub-region starts.
StackBump(sb) ==
    LET ends == {sb[h].start + sb[h].len : h \in StackLive(sb)}
    IN IF ends = {} THEN 0 ELSE CHOOSE e \in ends : \A o \in ends : o <= e

\* Buf::as_slice and Buf::len of a buffer of the fixed-capacity allocator.
StackSlice(region, b) == [i \in 1..b.len |-> region[b.start + i]]
StackBufLen(b) == b.len

StackNew ==
    /\ stk_region = [i \in 1..StackCapacity |-> 0]
    /\ stk_bufs = [h \in StackBufs |-> NoBuf]
    /\ stk_last = NoLast
    /\ cs = NoCall

\* Stack::alloc: no buffer when no byte of the region is left; otherwise
\* the sub-regions handed out before are closed and slot h gets the rest.
StackAllocFails(sb) == StackBump(sb) >= StackCapacity
StackAlloc(sb, h) ==
    LET bump == StackBump(sb)
    IN [g \in StackBufs |->
          IF g = h
          THEN [live |-> TRUE, start |-> bump, len |-> 0,
                limit |-> StackCapacity]
          ELSE IF sb[g].live /\ sb[g].limit > bump
               THEN [sb[g] EXCEPT !.limit = sb[g].start + sb[g].len]
               ELSE sb[g]]

\* Whether bytes fit into what is left of a sub-region.
StackFitsUnchecked(b, bytes) == TRUE
StackFits(b, bytes) == b.len + Len(bytes) <= b.limit - b.start

\* Buf::write of the fixed-capacity allocator: all of bytes or nothing.
StackBufWrite(st, h, bytes) ==
    LET b == st.bufs[h]
    IN IF StackFits(b, bytes)
       THEN [ok |-> TRUE,
             region |-> [i \in DOMAIN st.region |->
                            IF /\ i > b.start + b.len
                               /\ i <= b.start + b.len + Len(bytes)
                            THEN bytes[i - (b.start + b.len)]
                            ELSE st.region[i]],
             bufs |-> [st.bufs EXCEPT ![h].len = b.len + Len(bytes)]]
       ELSE [st EXCEPT !.ok = FALSE]

\* Drop of a buffer: its sub-region is given back. What a released
\* sub-region holds cannot be read any more; it counts as unwritten.
StackFree(sb, h) == [sb EXCEPT ![h] = NoBuf]
StackCleared(region, b) ==
    [i \in DOMAIN region |->
        IF i > b.start /\ i <= b.start + b.len THEN 0 ELSE region[i]]

\* The byte strings written into buffer h by its owner: each owner writes
\* a byte value of its own.
StackWriteInputs(h) == {[i \in 1..k |-> h] : k \in 0..MaxPiece}
\* The text pieces a Display implementation hands to the writer, one
\* write_str each.
PieceSet == {[i \in 1..k |-> 1] : k \in 0..MaxPiece}
RECURSIVE PiecesUpTo(_)
PiecesUpTo(n) ==
    IF n = 0 THEN {<<>>}
    ELSE PiecesUpTo(n - 1) \cup
         {Append(ps, p) : ps \in {q \in PiecesUpTo(n - 1) : Len(q) = n - 1},
                          p \in PieceSet}
Values == PiecesUpTo(MaxPieces)
RECURSIVE ConcatPieces(_)
ConcatPieces(ps) ==
    IF ps = <<>> THEN <<>> ELSE Head(ps) \o ConcatPieces(Tail(ps))

\* BufString::try_push_str: one write into the buffer; false is an error.
TryPushStrIgnoringFalse(st, h, piece) ==
    [StackBufWrite(st, h, piece) EXCEPT !.ok = TRUE]
TryPushStr(st, h, piece) == StackBufWrite(st, h, piece)

\* write!(string, "{value}"): the pieces in order, stopping at the first
\* write that fails.
RECURSIVE WriteFmt(_, _, _)
WriteFmt(st, h, ps) ==
    IF ps = <<>> THEN st
    ELSE LET r == TryPushStr(st, h, Head(ps))
         IN IF r.ok THEN WriteFmt(r, h, Tail(ps)) ELSE r

FreeSlot == CHOOSE h \in StackBufs : ~stk_bufs[h].live
Did(name, h, bytes) == [op |-> name, h |-> h, ok |-> TRUE, bytes |-> bytes]

\* Another user of the allocator takes a buffer.
StackTake ==
    /\ StackLive(stk_bufs) # StackBufs
    /\ IF StackAllocFails(stk_bufs)
       THEN /\ stk_last' = [Did("alloc", 0, <<>>) EXCEPT !.ok = FALSE]
            /\ UNCHANGED stk_bufs
       ELSE /\ stk_last' = Did("alloc", FreeSlot, <<>>)
            /\ stk_bufs' = StackAlloc(stk_bufs, FreeSlot)
    /\ cs' = NoCall
    /\ UNCHANGED stk_region
    /\ StackOnly

\* A write into a live buffer.
StackWrite(h, bytes) ==
    /\ stk_bufs[h].live
    /\ LET r == StackBufWrite([ok |-> TRUE, region |-> stk_region,
                               bufs |-> stk_bufs], h, bytes)
       IN /\ stk_region' = r.region
          /\ stk_bufs' = r.bufs
          /\ stk_last' = [Did("write", h, bytes) EXCEPT !.ok = r.ok]
    /\ cs' = NoCall
    /\ StackOnly

\* A buffer is dropped, or a string that collect_string returned with it.
StackDrop(h) ==
    /\ stk_bufs[h].live
    /\ stk_bufs' = StackFree(stk_bufs, h)
    /\ stk_region' = StackCleared(stk_region, stk_bufs[h])
    /\ stk_last' = Did("drop", h, <<>>)
    /\ cs' = NoCall
    /\ StackOnly

\* collect_string(cx, value): a buffer from the context's allocator, the
\* value formatted into it, and the string or the context's error.
CollectString(value) ==
    /\ StackLive(stk_bufs) # StackBufs
    /\ stk_last' = Did("collect_string", 0, <<>>)
    /\ IF StackAllocFails(stk_bufs)
       THEN /\ cs' = [buf |-> 0, value |-> value,
                      result |-> "Failed to allocate"]
            /\ UNCHANGED <<stk_region, stk_bufs>>
       ELSE LET h == FreeSlot
                sb == StackAlloc(stk_bufs, h)
                r == WriteFmt([ok |-> TRUE, region |-> stk_region,
                               bufs |-> sb], h, value)
            IN IF r.ok
               THEN /\ cs' = [buf |-> h, value |-> value, result |-> "ok"]
                    /\ stk_region' = r.region
                    /\ stk_bufs' = r.bufs
               ELSE /\ cs' = [buf |-> 0, value |-> value,
                              result |-> "Failed to write to string"]
                    /\ stk_region' = StackCleared(r.region, r.bufs[h])
                    /\ stk_bufs' = StackFree(r.bufs, h)
    /\ StackOnly

NextStack ==
    \/ StackTake
    \/ \E h \in StackBufs :
          \E bytes \in StackWriteInputs(h) : StackWrite(h, bytes)
    \/ \E h \in StackBufs : StackDrop(h)
    \/ \E value \in Values : CollectString(value)

\* ------------------------------------------- visitors of strings and bytes
\* A buffer is a place on vis_heap; two values hold the same data without a
\* copy when they name the same buffer. Buffer 1 is the one the driver
\* delivers.
MaxText == 2
Texts == UNION {[1..k -> Byte] : k \in 0..MaxText}
Channels == {"owned", "borrowed", "reference"}
CowTypes == {"Cow<str>", "Cow<[u8]>"}
VisitTypes == CowTypes \cup {"String"}
Delivered == 1
Scratch == <<0>>
NoVisit == [kind |-> "none", buf |-> 0]

\* ToOwned::to_owned: a new buffer holding a copy of the bytes of b.
ToOwned(heap, b) == [heap |-> Append(heap, heap[b]), buf |-> Len(heap) + 1]

\* cow!: visit_owned, visit_borrowed and visit_ref of the visitor of
\* Cow<str> and Cow<[u8]>.
CowVisitOwned(heap, b) ==
    [heap |-> heap, out |-> [kind |-> "Owned", buf |-> b]]
CowVisitBorrowed(heap, b) ==
    [heap |-> heap, out |-> [kind |-> "Borrowed", buf |-> b]]
CowVisitRefNoCopy(heap, b) ==
    [heap |-> heap, out |-> [kind |-> "Owned", buf |-> b]]
CowVisitRef(heap, b) ==
    LET c == ToOwned(heap, b)
    IN [heap |-> c.heap, out |-> [kind |-> "Owned", buf |-> c.buf]]

\* Decode for String: visit_owned, visit_borrowed and visit_ref.
StringVisitOwned(heap, b) ==
    [heap |-> heap, out |-> [kind |-> "String", buf |-> b]]
StringVisitRef(heap, b) ==
    LET c == ToOwned(heap, b)
    IN [heap |-> c.heap, out |-> [kind |-> "String", buf |-> c.buf]]
StringVisitBorrowed(heap, b) == StringVisitRef(heap, b)

\* decoder.decode_string(Visitor) / decode_bytes(Visitor): the driver calls
\* the visitor on the channel it delivers the data through.
Visit(type, channel, heap, b) ==
    IF type \in CowTypes
    THEN CASE channel = "owned" -> CowVisitOwned(heap, b)
           [] channel = "borrowed" -> CowVisitBorrowed(heap, b)
           [] channel = "reference" -> CowVisitRef(heap, b)
    ELSE CASE channel = "owned" -> StringVisitOwned(heap, b)
           [] channel = "borrowed" -> StringVisitBorrowed(heap, b)
           [] channel = "reference" -> StringVisitRef(heap, b)

VisitInit ==
    /\ vis_in = [type |-> "none", channel |-> "none", text |-> <<>>]
    /\ vis_heap = <<>>
    /\ vis_out = NoVisit
    /\ vis_pc = "idle"

\* Decode::decode of a Cow or a String: the driver delivers text on one of
\* its three channels and the visitor makes the decoded value.
VisitDecode(type, channel, text) ==
    /\ vis_pc = "idle"
    /\ LET r == Visit(type, channel, <<text>>, Delivered)
       IN /\ vis_heap' = r.heap
          /\ vis_out' = r.out
    /\ vis_in' = [type |-> type, channel |-> channel, text |-> text]
    /\ vis_pc' = "visited"
    /\ VisitOnly

\* The visit call is over: a buffer that was lent for the call only is the
\* driver's again, which goes on to use it for something else.
VisitReturn ==
    /\ vis_pc = "visited"
    /\ vis_heap' = IF vis_in.channel = "reference"
                   THEN [vis_heap EXCEPT ![Delivered] = Scratch]
                   ELSE vis_heap
    /\ vis_pc' = "returned"
    /\ UNCHANGED <<vis_in, vis_out>>
    /\ VisitOnly

\* The decoded value is dropped.
VisitDrop ==
    /\ vis_pc = "returned"
    /\ vis_in' = [type |-> "none", channel |-> "none", text |-> <<>>]
    /\ vis_heap' = <<>>
    /\ vis_out' = NoVisit
    /\ vis_pc' = "idle"
    /\ VisitOnly

NextVisit ==
    \/ \E type \in VisitTypes, channel \in Channels, text \in Texts :
          VisitDecode(type, channel, text)
    \/ VisitReturn
    \/ VisitDrop

\* ------------------------------------------------ encoding configuration
\* The type parameters of Encoding<M, OPT>: a mode and a set of options,
\* which is a number.
MaxOptions == 3
Modes == {"DefaultMode", "Binary", "Text"}
OptionSets == 0..MaxOptions
DEFAULT_OPTIONS == 0

\* Encoding::new.
EncodingNew == [mode |-> "DefaultMode", opt |-> DEFAULT_OPTIONS]

\* Encoding::with_mode::<T>: the result type is Encoding<T>, whose second
\* parameter is the default of the declaration.
WithMode(e, t) == [mode |-> t, opt |-> DEFAULT_OPTIONS]

EncodingInit ==
    /\ encoding = EncodingNew
    /\ enc_last = [op |-> "new", given |-> EncodingNew]

\* Some Encoding<M, OPT> is at hand, of any type the declaration admits.
EncodingAny(m, opt) ==
    /\ encoding' = [mode |-> m, opt |-> opt]
    /\ enc_last' = [op |-> "any", given |-> encoding]
    /\ EncodingOnly

EncodingWithMode(t) ==
    /\ encoding' = WithMode(encoding, t)
    /\ enc_last' = [op |-> "with_mode", given |-> encoding]
    /\ EncodingOnly

NextEncoding ==
    \/ \E m \in Modes, opt \in OptionSets : EncodingAny(m, opt)
    \/ \E t \in Modes : EncodingWithMode(t)

\* ------------------------------------------------ slice parser, by call
\* The methods of SliceParser called one at a time on a slice of any bytes,
\* with a context that starts at position 0.
ParserBytes == {" ", "\n", "\t", "\r", "1"}
Slices == UNION {[1..k -> ParserBytes] : k \in 0..MaxSliceLen}
\* The amounts given to skip and the buffer lengths given to read: small
\* ones and ones that wrap around.
Amounts ==
    (0..(MaxSliceLen + 1)) \cup
    {Pow2(WordBits) - k : k \in 1..(MaxSliceLen + 1)}
NoCalled == [op |-> "none", n |-> 0, err |-> "", buf |-> <<>>]
Returned(name, n, p) == [op |-> name, n |-> n, err |-> p.err, buf |-> p.buf]
RestOfJson == <<doc, jpath, jerrors, jout, pc>>

ParserInit == called = NoCalled

\* What a call leaves behind: the parser's index and the context's position.
ParserKeeps(p) ==
    /\ index' = p.index
    /\ mark' = p.mark
    /\ UNCHANGED slice
    /\ UNCHANGED RestOfJson
    /\ ParserOnly

\* SliceParser::new on a slice, and a new context.
SliceParserNew(s) ==
    /\ pc = "idle"
    /\ called.op = "none"
    /\ slice' = s
    /\ index' = 0
    /\ mark' = 0
    /\ called' = [NoCalled EXCEPT !.op = "new"]
    /\ UNCHANGED RestOfJson
    /\ ParserOnly

CallSkip(n) ==
    /\ called.op # "none"
    /\ LET p == ParserSkip(Parser, n)
       IN /\ called' = Returned("skip", n, p)
          /\ ParserKeeps(p)

CallRead(n) ==
    /\ called.op # "none"
    /\ LET p == ParserRead(Parser, n)
       IN /\ called' = Returned("read", n, p)
          /\ ParserKeeps(p)

CallReadByte ==
    /\ called.op # "none"
    /\ LET p == ParserReadByte(Parser)
       IN /\ called' = Returned("read_byte", 1, p)
          /\ ParserKeeps(p)

CallSkipWhitespace ==
    /\ called.op # "none"
    /\ LET p == ParserSkipWhitespace(Parser)
       IN /\ called' = Returned("skip_whitespace", 0, p)
          /\ ParserKeeps(p)

CallPeekByte ==
    /\ called.op # "none"
    /\ called' = [op |-> "peek_byte", n |-> 0, err |-> "",
                  buf |-> <<ParserPeekByte(Parser)>>]
    /\ ParserKeeps(Parser)

\* SliceParser::parse_f32 / parse_f64: dec2flt on the rest of the slice
\* yields nothing, or a value and the number of bytes it was read from.
ParserParseFloat(p, read) ==
    IF read = 0 THEN Message(p, "ParseFloat")
    ELSE [p EXCEPT !.index = @ + read, !.mark = @ + read]

CallParseFloat(name, read) ==
    /\ called.op # "none"
    /\ read <= Len(slice) - index
    /\ LET p == ParserParseFloat(Parser, read)
       IN /\ called' = Returned(name, read, p)
          /\ ParserKeeps(p)

NextParser ==
    \/ \E s \in Slices : SliceParserNew(s)
    \/ \E n \in Amounts : CallSkip(n)
    \/ \E n \in Amounts : CallRead(n)
    \/ CallReadByte
    \/ CallSkipWhitespace
    \/ CallPeekByte
    \/ \E name \in {"parse_f32", "parse_f64"}, read \in 0..MaxSliceLen :
          CallParseFloat(name, read)

Init ==
    /\ SystemNew /\ TraceInit /\ ValueInit /\ JsonInit /\ VariantInit
    /\ TreeInit /\ IntInit /\ StackNew /\ VisitInit /\ EncodingInit
    /\ ParserInit

SpecValue == Init /\ [][NextValue]_vars

SpecAlloc == Init /\ [][NextAlloc]_vars

\* The drop loop is sequential code: once begun it runs to its end.
SpecAllocDrop ==
    /\ Init
    /\ [][NextAllocDrop]_vars
    /\ WF_vars(SystemDropLoop)
    /\ WF_vars(SystemDropEnd)

SpecTrace == Init /\ [][NextTrace]_vars

SpecJson == Init /\ [][NextJson]_vars

SpecVariant == Init /\ [][NextVariant]_vars

SpecTree == Init /\ [][NextTree]_vars

SpecInt == Init /\ [][NextInt]_vars

SpecStack == Init /\ [][NextStack]_vars

SpecVisit == Init /\ [][NextVisit]_vars

SpecEncoding == Init /\ [][NextEncoding]_vars

SpecParser == Init /\ [][NextParser]_vars

\* ------------------------------------------------- claims on the allocator
Holders(r) == {h \in Live : bufs[h] = r}
Occurrences(s, r) == Cardinality({i \in DOMAIN s : s[i] = r})
Allocated(h) == bufs[h] = None /\ bufs'[h] # None
Dropped(h) == bufs[h] # None /\ bufs'[h] = None

\* C1: the number of regions ever created never exceeds the peak number of
\* simultaneously live handles; with at most one handle live at a time,
\* exactly one region is created however often acquire-write-release repeats.
C1_RegionsBoundedByPeak ==
    /\ nregions <= peak
    /\ (peak = 1 => nregions = 1)

\* Three acquire-write-release rounds with one live handle at a time.
C1_Witness ==
    /\ allocs >= 3
    /\ peak = 1
    /\ nregions = 1
    /\ dirtied = {1}
    /\ Live = {}

\* C2: every created region is either held by exactly one live handle or
\* linked exactly once on the free list, never both; the free list is
\* acyclic; and with no live handle every region is on the free list.
C2_RegionInOnePlace ==
    /\ FreeListEnds
    /\ \A r \in Regions :
          \/ Cardinality(Holders(r)) = 1 /\ Occurrences(FreeList, r) = 0
          \/ Cardinality(Holders(r)) = 0 /\ Occurrences(FreeList, r) = 1
    /\ (Live = {} => {FreeList[i] : i \in DOMAIN FreeList} = Regions)

\* All handles dropped after writes, the older region dropped last.
C2_Witness ==
    /\ Live = {}
    /\ nregions >= 2
    /\ dirtied # {}
    /\ Len(FreeList) = nregions
    /\ FreeList[1] < FreeList[2]

\* C3: LIFO reuse. Dropping a handle pushes its region on the head of the
\* free list; alloc pops the head whenever the free list is non-empty and
\* creates a region only when it is empty.
C3_LifoReuse ==
    [][ /\ \A h \in Handles : Allocated(h) =>
              IF head # None
              THEN /\ bufs'[h] = head
                   /\ FreeList = <<bufs'[h]>> \o FreeList'
                   /\ nregions' = nregions
              ELSE /\ nregions' = nregions + 1
                   /\ bufs'[h] = nregions'
                   /\ FreeList' = <<>>
        /\ \A h \in Handles : Dropped(h) =>
              FreeList' = <<bufs[h]>> \o FreeList
      ]_vars

\* Regions 1 then 2 were dropped and both were handed out again: handle 1,
\* which allocated first, holds region 2.
C3_Witness ==
    /\ allocs = 4
    /\ nregions = 2
    /\ bufs[1] = 2
    /\ bufs[2] = 1
    /\ dirtied = {}

\* C4: every buffer returned by System::alloc is empty, whether its region
\* is new or was written to through an earlier handle.
C4_AllocReturnsEmpty ==
    [][ \A h \in Handles : Allocated(h) =>
            /\ BufLen(h)' = 0
            /\ BufAsSlice(h)' = <<>>
      ]_vars

\* A live handle on a region that an earlier handle wrote to.
C4_Witness ==
    \E h \in Live :
        /\ bufs[h] \in dirtied
        /\ BufLen(h) = 0
        /\ written[h] = <<>>

\* C5: live buffers are independent. The contents of each live buffer are
\* the concatenation, in order, of the slices written through its handle,
\* and its length is their total length.
C5_BuffersIndependent ==
    \A h \in Live :
        /\ BufAsSlice(h) = written[h]
        /\ BufLen(h) = Len(written[h])

\* Three live buffers a, b, c: a holds what b holds followed by what c holds.
C5_Witness ==
    \E a, b, c \in Live :
        /\ Cardinality({a, b, c}) = 3
        /\ BufAsSlice(b) # <<>>
        /\ BufAsSlice(c) # <<>>
        /\ BufAsSlice(b) # BufAsSlice(c)
        /\ BufAsSlice(a) = BufAsSlice(b) \o BufAsSlice(c)
        /\ BufLen(a) = BufLen(b) + BufLen(c)

\* ------------------------------------------------ claims on path tracking
\* C6: when the encode or decode of a sequence or of a traced map returns,
\* with Ok or with Err, the path stack is what it was on entry.
C6_PathRestoredOnReturn ==
    ret # NoRet => ret.exit_path = ret.entry_path

\* The first entry of a record whose value is not a number, or 0.
FirstBad(d) ==
    LET bad == {i \in DOMAIN d.entries : d.entries[i].val.kind # "number"}
    IN IF bad = {} THEN 0 ELSE CHOOSE i \in bad : \A j \in bad : i <= j

\* The offset in the JSON text of the value of the i-th entry, and the offset
\* after it.
ValueStart(d, i) == Len(RecordHead \o EntriesPrefix(d.entries, d.pad, i))
ValueEnd(d, i) == ValueStart(d, i) + Len(ValText(d.entries[i].val))

\* C7: when the decode of the value of the entry with key k of the traced
\* map field `values` fails, from_slice_with returns an error, and the one
\* collected error carries the path .values[k], the message and a byte range
\* that starts where the offending value starts and lies in it; it is
\* displayed as path: message (at bytes start-end). The decode succeeds only
\* when every value is a number. For {values: {"Hello": "World"}} the error
\* is displayed as .values[Hello]: Invalid numeric (at bytes 19-20).
C7_TraceCollectionError ==
    /\ pc = "failed" =>
          LET i == FirstBad(doc)
              e == jerrors[1]
          IN /\ i > 0
             /\ Len(jerrors) = 1
             /\ e.path = ".values[" \o doc.entries[i].key \o "]"
             /\ e.message = "Invalid numeric"
             /\ e.start = ValueStart(doc, i)
             /\ e.start < e.end
             /\ e.end <= ValueEnd(doc, i)
             /\ Display(e) = ".values[" \o doc.entries[i].key
                                \o "]: Invalid numeric (at bytes "
                                \o ToString(ValueStart(doc, i)) \o "-"
                                \o ToString(e.end) \o ")"
    /\ pc = "done" => FirstBad(doc) = 0 /\ jerrors = <<>>
    /\ (doc = HelloWorld /\ pc \in {"done", "failed"}) =>
          /\ pc = "failed"
          /\ Display(jerrors[1]) =
                ".values[Hello]: Invalid numeric (at bytes 19-20)"

\* The decode of {values: {"Hello": "World"}} has returned its error.
C7_Witness ==
    /\ doc = HelloWorld
    /\ slice = JsonText(HelloWorld)
    /\ pc = "failed"
    /\ jerrors # <<>>

\* C8: as long as every enter has been paired with its leave, the path is
\* exactly the open entries in open order, its rendering is the concatenation
\* of their renderings, and an error raised there carries that path.
C8_PathIsOpenEntries ==
    /\ ~failed => /\ path = OpenEntries
                  /\ RenderPath(path) = RenderPath(OpenEntries)
    /\ \A i \in DOMAIN errors :
          errors[i].paired => errors[i].path = RenderPath(errors[i].open)

\* An error raised at an element of a sequence nested in a map entry, after
\* an earlier entry of the map was left.
C8_Witness ==
    /\ ~failed
    /\ Len(stack) = 2
    /\ stack[1].index = 1
    /\ stack[2].index = 1
    /\ RenderPath(path) = "[Hello][1]"
    /\ errors # <<>>
    /\ errors[Len(errors)].path = "[Hello][1]"

\* -------------------------------------------------- claims on the value tree
\* C9: a builder finalizes output only inside end. The output handed to a
\* builder holds what it held when the builder was made for as long as the
\* builder is in progress, and still does after the builder was dropped
\* without end.
C9_SinkUnchangedUntilEnd ==
    /\ \A i \in 1..Depth :
          TargetContent(builders, i - 1, builders[i].out) = builders[i].snap
    /\ (last.step = "drop" => last.value = last.expected)

\* A builder that holds two elements and has not ended: the Value it was
\* made for is still the Unit it was before.
C9_Witness ==
    /\ Depth = 1
    /\ enc = NoEnc
    /\ Len(builders[1].values) = 2
    /\ builders[1].values[1] # builders[1].values[2]
    /\ builders[1].snap = Unit
    /\ sink = Unit

\* C10: after n encode_next calls on a sequence, tuple or pack builder, each
\* completed by one primitive call (encode_unit included), end delivers a
\* Sequence of exactly the n values of those calls, in call order.
C10_SequenceOfPrimitives ==
    (last.step = "end" /\ last.clean) => last.value = Sequence(last.expected)

\* C11: encode_some followed by a primitive call (encode_unit included)
\* delivers the value of the call wrapped in Option(Some(..)) once per
\* encode_some, innermost first; encode_none delivers Option(None).
C11_SomeWrapsPrimitive ==
    (last.step = "prim" /\ (last.somes > 0 \/ last.prim = "none")) =>
        last.value = last.expected

C13_EntryAccessorMisuseIsError ==
    (last.step = "accessor" /\ last.misuse) => verr # ""

\* C14: a unit-shaped, a tuple-shaped and a field-named variant, and packed
\* variants of each shape, decode back from the Value they were encoded to
\* to a value equal to the original, and two different variants of one enum
\* are never decoded to the same value.
C14_VariantsRoundTrip ==
    rt_pc = "decoded" =>
        /\ rt_out[1] = rt_in[1]
        /\ rt_out[2] = rt_in[2]
        /\ rt_in[1].name # rt_in[2].name =>
              /\ rt_value[1] # rt_value[2]
              /\ rt_out[1] # rt_out[2]

\* A field-named variant and another variant of its enum with the same field
\* value were encoded and decoded.
C14_Witness ==
    /\ rt_pc = "decoded"
    /\ rt_in[1] = [enum |-> "NamedVariants", name |-> "Variant1", fields |-> <<1>>]
    /\ rt_in[2] = [enum |-> "NamedVariants", name |-> "Variant2", fields |-> <<1>>]
    /\ rt_value[1] = Variant(String("Variant1"), Map(<<<<Number(0), Number(1)>>>>))

\* C15: every Value tree, encoded with the driver and decoded back, yields a
\* tree structurally equal to the original, with the order of Sequence
\* elements and of Map entries preserved.
C15_ValueTreeRoundTrip ==
    vt_pc = "decoded" => vt_out = vt_in

\* C16: for every signed integer n of the encoded width, zigzag-encoding n,
\* continuation-encoding the result (7 payload bits per byte, least
\* significant group first, every byte but the last flagged), decoding and
\* un-zigzagging yields exactly n.
C16_ZigzagVarintRoundTrip ==
    /\ zz_pc = "decoded" => zz_out = zz_n
    /\ zz_pc # "idle" =>
          /\ zz_bytes # <<>>
          /\ \A i \in DOMAIN zz_bytes :
                (zz_bytes[i] >= Pow2(PayloadBits)) <=> (i < Len(zz_bytes))
          /\ zz_bytes[Len(zz_bytes)] = 0 => Len(zz_bytes) = 1

\* The minimum of the width went through two bytes and came back.
C16_Witness ==
    /\ zz_pc = "decoded"
    /\ zz_n = 0 - Pow2(IntBits - 1)
    /\ Len(zz_bytes) = 2
    /\ zz_out = zz_n

\* C17: a composite propagates the first error of a child immediately. A
\* step in which an error is raised starts the return of that error; while it
\* is returned every step is the return of the innermost call in progress
\* with Err and without a collection, no element or entry is decoded and no
\* other error is raised.
C17_FirstErrorPropagates ==
    [][ /\ Len(errors') > Len(errors) =>
              (unwinding' /\ Len(errors') = 1 /\ stack' = stack)
        /\ unwinding =>
              /\ stack' = Pop
              /\ ~ret'.ok
              /\ ret'.out = NoOut
              /\ ret'.op = Top.op
              /\ ret'.index = Top.index
              /\ errors' = errors ]_vars

\* The decode of a sequence returned the error of its second element.
C17_Witness ==
    /\ stack = <<>>
    /\ ret.op = "seq_decode"
    /\ ~ret.ok
    /\ ret.index = 1
    /\ ret.out = NoOut
    /\ Len(errors) = 1
    /\ errors[1].message = "element"

\* The entries of a record whose value is not a number, in order.
BadEntries(d) ==
    LET IsBad(e) == e.val.kind # "number"
    IN SelectSeq(d.entries, IsBad)

\* C18: a traced map decode records the error of a failing entry with its
\* path and continues with the following entries: after the decode pass the
\* context holds one error per failing entry, each with the key of its
\* entry.
C18_OneErrorPerFailingEntry ==
    pc \in {"done", "failed"} =>
        /\ Len(jerrors) = Len(BadEntries(doc))
        /\ \A i \in DOMAIN jerrors :
              jerrors[i].path = ".values[" \o BadEntries(doc)[i].key \o "]"

\* C19: collect_string returns the error 'Failed to allocate' when the
\* context's alloc yields no buffer and 'Failed to write to string' as soon
\* as a write into the buffer returns false, which is when the formatted
\* value is longer than the room of the buffer; a string it returns holds
\* the whole formatted value, and after an error the buffer it acquired is
\* released, so that the live buffers are those of before the call.
C19_CollectStringErrors ==
    [][ stk_last'.op = "collect_string" =>
          LET room == StackCapacity - StackBump(stk_bufs)
              text == ConcatPieces(cs'.value)
          IN /\ (cs'.result = "Failed to allocate") = (room <= 0)
             /\ (cs'.result = "Failed to write to string") =
                   (room > 0 /\ Len(text) > room)
             /\ (cs'.result = "ok") = (room > 0 /\ Len(text) <= room)
             /\ cs'.result = "ok" =>
                   /\ cs'.buf \in StackLive(stk_bufs') \ StackLive(stk_bufs)
                   /\ StackLive(stk_bufs') = StackLive(stk_bufs) \cup {cs'.buf}
                   /\ StackSlice(stk_region', stk_bufs'[cs'.buf]) = text
             /\ cs'.result # "ok" =>
                   /\ cs'.buf = 0
                   /\ StackLive(stk_bufs') = StackLive(stk_bufs) ]_vars

C19_Witness ==
    /\ stk_last.op = "collect_string"
    /\ cs.result = "Failed to write to string"
    /\ Len(cs.value) = 2
    /\ Len(cs.value[1]) > 0
    /\ Len(cs.value[1]) <= StackCapacity - StackBump(stk_bufs)
    /\ StackLive(stk_bufs) # {}

\* C20: the fixed-capacity allocator never grows its region of N bytes and
\* the sub-regions of the live buffers are disjoint; a write succeeds
\* exactly when its bytes fit into what is left of the buffer's sub-region,
\* so that N bytes fit into a buffer that has the whole region and one more
\* byte does not; after a write that returned false as_slice and len report
\* the bytes written before, and no write changes another buffer's bytes.
C20_FixedCapacity ==
    /\ [](/\ Len(stk_region) = StackCapacity
          /\ \A h \in StackLive(stk_bufs) :
                /\ stk_bufs[h].start + stk_bufs[h].len <= stk_bufs[h].limit
                /\ stk_bufs[h].limit <= StackCapacity
          /\ \A g, h \in StackLive(stk_bufs) :
                g # h => \/ stk_bufs[g].limit <= stk_bufs[h].start
                         \/ stk_bufs[h].limit <= stk_bufs[g].start)
    /\ [][ stk_last'.op = "write" =>
             LET h == stk_last'.h
                 before == StackSlice(stk_region, stk_bufs[h])
                 now == StackSlice(stk_region', stk_bufs'[h])
                 cap == stk_bufs[h].limit - stk_bufs[h].start
             IN /\ stk_last'.ok =
                      (Len(before) + Len(stk_last'.bytes) <= cap)
                /\ stk_last'.ok => now = before \o stk_last'.bytes
                /\ ~stk_last'.ok =>
                      /\ now = before
                      /\ StackBufLen(stk_bufs'[h]) = Len(before)
                /\ \A g \in StackLive(stk_bufs) \ {h} :
                      StackSlice(stk_region', stk_bufs'[g]) =
                         StackSlice(stk_region, stk_bufs[g]) ]_vars

C20_Witness ==
    /\ stk_last.op = "write"
    /\ ~stk_last.ok
    /\ Len(stk_last.bytes) = 1
    /\ stk_bufs[stk_last.h].start = 0
    /\ StackBufLen(stk_bufs[stk_last.h]) = StackCapacity
    /\ \A i \in 1..StackCapacity :
          StackSlice(stk_region, stk_bufs[stk_last.h])[i] # 0

\* C21: decoding a Cow<str> or a Cow<[u8]> yields Cow::Borrowed exactly when
\* the driver delivered the data on the borrowed channel, and then it is the
\* delivered buffer; on the owned channel it yields Cow::Owned holding the
\* delivered buffer, on the reference channel Cow::Owned holding another
\* buffer; the decoded value holds the delivered text, for String as well,
\* also after the visit call is over.
C21_CowKeepsChannels ==
    vis_pc \in {"visited", "returned"} =>
        /\ vis_heap[vis_out.buf] = vis_in.text
        /\ vis_in.type \in CowTypes =>
              /\ (vis_out.kind = "Borrowed") = (vis_in.channel = "borrowed")
              /\ vis_in.channel # "borrowed" => vis_out.kind = "Owned"
              /\ (vis_out.buf = Delivered) = (vis_in.channel # "reference")
        /\ vis_in.type = "String" => vis_out.kind = "String"

C21_Witness ==
    /\ vis_pc = "returned"
    /\ vis_in.type = "Cow<str>"
    /\ vis_in.channel = "reference"
    /\ Len(vis_in.text) = MaxText
    /\ vis_out.kind = "Owned"
    /\ vis_heap[Delivered] # vis_in.text
    /\ vis_heap[vis_out.buf] = vis_in.text

VariantKinds ==
    {"VariantValueEncoder", "VariantSequenceEncoder", "VariantStructEncoder"}
C23_VariantShapes ==
    /\ [](last.step = "unit_variant" => last.value = last.expected)
    /\ [][ (last'.step = "end" /\ last'.kind \in VariantKinds /\ Cur.clean
            /\ Cur.pend = Nothing) =>
             LET b == Cur
                 got == Latest(sink', builders', Depth - 1, b.out.field)
                 tag == IF b.kind = "VariantValueEncoder" THEN b.pair[1]
                        ELSE b.variant
                 payload ==
                     CASE b.kind = "VariantValueEncoder" -> b.pair[2]
                       [] b.kind = "VariantSequenceEncoder" -> Sequence(b.prims)
                       [] b.kind = "VariantStructEncoder" -> Map(b.prims)
             IN got = Wrap(Variant(tag, payload), b.out.somes) ]_vars

\* C24: while the i-th element of a sequence is encoded or decoded, the
\* entry the sequence has open on the path is the index i, and it is the
\* innermost entry unless the element is itself a collection in progress;
\* the indices are entered as 0, 1, 2, ..; between two elements the path is
\* the one the sequence was entered with.
C24_SequenceIndices ==
    ~unwinding =>
        \A f \in DOMAIN stack :
            stack[f].op \in SeqOps =>
                LET fr == stack[f]
                    n == Len(fr.entered)
                    base == Len(fr.entry_path)
                IN /\ \A j \in 1..n : fr.entered[j] = j - 1
                   /\ IF fr.cur # NoEntry
                      THEN /\ n > 0
                           /\ Len(path) > base
                           /\ SubSeq(path, 1, base) = fr.entry_path
                           /\ path[base + 1] = IndexEntry(n - 1)
                           /\ f = Len(stack) => Len(path) = base + 1
                      ELSE /\ f = Len(stack)
                           /\ path = fr.entry_path

C24_Witness ==
    /\ ~unwinding
    /\ Len(stack) = 2
    /\ stack[1].op = "seq_decode"
    /\ stack[2].op = "seq_encode"
    /\ stack[1].entered = <<0, 1>>
    /\ stack[2].entered = <<0, 1>>
    /\ stack[2].cur # NoEntry
    /\ path = <<IndexEntry(1), IndexEntry(1)>>

\* C25: the position of the context stays equal to the index of the slice
\* parser: after any calls of skip, read, read_byte, skip_whitespace,
\* peek_byte, parse_f32 and parse_f64 the amounts given to advance add up to
\* the index; peek_byte and every call that fails change neither.
C25_PositionIsIndex ==
    /\ [](called.op # "none" => mark = index)
    /\ [][ (called'.op = "peek_byte" \/ called'.err # "") =>
             (index' = index /\ mark' = mark) ]_vars

C25_Witness ==
    /\ called.op = "parse_f64"
    /\ called.err = ""
    /\ index = MaxSliceLen
    /\ mark = MaxSliceLen
    /\ slice[1] \in Whitespace

\* C26: the slice parser never reads past its input: the index is between 0
\* and the length of the slice; skip(n) and read(buf) succeed exactly when
\* index + n is at most the length, and then advance the index by n, read
\* yielding the n bytes from the index on; otherwise they return 'Buffer
\* underflow' and leave the index, the position and the input as they were.
C26_NoReadPastInput ==
    /\ [](0 <= index /\ index <= Len(slice))
    /\ [][ called'.op \in {"skip", "read", "read_byte"} =>
             LET n == called'.n
                 fits == index + n <= Len(slice)
             IN /\ (called'.err = "") = fits
                /\ fits => /\ index' = index + n
                           /\ called'.op # "skip" =>
                                 called'.buf = SubSeq(slice, index + 1, index + n)
                /\ ~fits => /\ called'.err = "Buffer underflow"
                            /\ index' = index
                            /\ mark' = mark
                /\ slice' = slice ]_vars

C26_Witness ==
    /\ called.op = "read"
    /\ called.err = "Buffer underflow"
    /\ called.n = 2
    /\ Len(slice) = MaxSliceLen
    /\ index = MaxSliceLen - 1

\* C27: the test of skip and read is right under wrap-around: for an index
\* that is at most the length and every n of the word, 'outcome > len or
\* outcome < index' with outcome = (index + n) mod 2^w is true exactly when
\* index + n exceeds the length; an n that wraps around is rejected and the
\* index never moves backwards.
C27_UnderflowTestUnderWrap ==
    /\ [](\A n \in Word :
             Underflows(index, n, Len(slice)) = (index + n > Len(slice)))
    /\ [][ called'.op \in {"skip", "read"} => index' >= index ]_vars

C27_Witness ==
    /\ called.op = "skip"
    /\ called.err = "Buffer underflow"
    /\ index > 0
    /\ index + called.n >= Pow2(WordBits)
    /\ (index + called.n) % Pow2(WordBits) <= Len(slice)

\* C29: skip_whitespace never fails and ends: it moves the index over the
\* longest run of space, newline, tab and carriage return that starts at the
\* index and stops at the first other byte or at the end of the slice;
\* called again it changes nothing.
C29_SkipWhitespace ==
    /\ [][ called'.op = "skip_whitespace" =>
             /\ called'.err = ""
             /\ index' >= index
             /\ index' <= Len(slice)
             /\ \A i \in (index + 1)..index' :
                   slice[i] \in {" ", "\n", "\t", "\r"}
             /\ index' < Len(slice) =>
                   slice[index' + 1] \notin {" ", "\n", "\t", "\r"}
             /\ mark' - mark = index' - index ]_vars
    /\ [](called.op = "skip_whitespace" =>
             ParserSkipWhitespace(Parser).index = index)

C29_Witness ==
    /\ called.op = "skip_whitespace"
    /\ Len(slice) = MaxSliceLen
    /\ index = MaxSliceLen - 1
    /\ slice[1] = "\t"
    /\ slice[2] = "\r"
    /\ slice[MaxSliceLen] = "1"

\* C28: in the traced map decode the key of an entry is decoded before its
\* path entry is entered and the value after: a failing key is reported with
\* the path of the enclosing map only, without a key segment and without the
\* segment of the entry before it, and a failing value is reported under the
\* key of its own entry.
C28_MapKeyBeforeEntry ==
    [][ (Len(errors') = Len(errors) + 1 /\ stack # <<>>
           /\ Top.op = "map_trace_decode") =>
          LET e == errors'[Len(errors')]
          IN /\ e.message = "key" =>
                   /\ e.path = RenderPath(Top.entry_path)
                   /\ e.open = [i \in 1..(Len(stack) - 1) |-> stack[i].cur]
             /\ e.message = "element" =>
                   /\ Top.cur.kind = "key"
                   /\ e.path = RenderPath(Append(Top.entry_path, Top.cur))
                   /\ e.open[Len(e.open)] = Top.cur ]_vars

C28_Witness ==
    /\ unwinding
    /\ Len(stack) = 2
    /\ stack[1].op = "map_trace_decode"
    /\ stack[1].cur = KeyEntry("k")
    /\ Top.op = "map_trace_decode"
    /\ Top.index = 1
    /\ Top.cur = NoEntry
    /\ Len(errors) = 1
    /\ errors[1].message = "key"
    /\ errors[1].path = "[k]"

\* C30: dropping a System allocator ends and deallocates every region of its
\* free list exactly once: each turn of the loop takes the head region off
\* the list before it deallocates it, the regions deallocated so far followed
\* by the regions still linked are the list the drop began with, and the drop
\* ends with an empty free list.
C30_DropFreesEachRegionOnce ==
    /\ [](dropped.pc # "live" =>
             /\ FreeListEnds
             /\ dropped.freed \o FreeList = dropped.list
             /\ \A i, j \in 1..Len(dropped.freed) :
                   dropped.freed[i] = dropped.freed[j] => i = j)
    /\ [](dropped.pc = "done" =>
             /\ head = None
             /\ dropped.freed = dropped.list)
    /\ [][ Len(dropped'.freed) = Len(dropped.freed) + 1 =>
             LET r == dropped'.freed[Len(dropped'.freed)]
             IN /\ r = head
                /\ head' # r
                /\ region_next'[r] = None
                /\ \A i \in 1..Len(FreeList') : FreeList'[i] # r ]_vars
    /\ (dropped.pc = "running" ~> dropped.pc = "done")

C30_Witness ==
    /\ dropped.pc = "done"
    /\ Len(dropped.list) = 3
    /\ dropped.freed = <<2, 1, 3>>
    /\ head = None

====
